---- MODULE Spec2Model ----
(***************************************************************************)
(* A model of the polarys backend: the key-rotating news search            *)
(* (search.py), the session store (database.py) and the request handlers   *)
(* /search, /summary and /insights (server.py).                            *)
(***************************************************************************)
EXTENDS Integers, Sequences, FiniteSets, TLC

(***************************************************************************)
(* Bounds of the model.                                                    *)
(***************************************************************************)
\* size of the credential pool NEWS_API_KEYS read from the environment
NumKeys == 3
\* largest max_retries argument a modelled search_news call is given
MaxRetries == 4
\* number of /search requests served in a run
MaxSessions == 1
\* number of sessions created when the store operations are called on their own
StoreSessions == 2
\* longest batch given to store_articles_batch on its own
MaxBatch == 2
\* number of runs of like articles in a provider's result list
MaxBlocks == 1
\* longest list of posts an adapter for Reddit or Bluesky returns
MaxPosts == 1
\* longest list of articles in the body of an /insights request
MaxItems == 1
\* largest compound score, in hundredths, given to the sentiment thresholds
MaxScore == 100
\* number of worker threads running search_news at the same time
NumThreads == 2
\* number of key fetches the threads make in all
MaxFetches == 3
\* number of sessions whose requests share the content cache
SharedSessions == 2
\* longest list of posts of one adapter whose classification calls are
\* followed one by one
MaxClassified == 2

(***************************************************************************)
(* Strings, as far as the code looks into them.                            *)
(***************************************************************************)
\* a string is a sequence of one-character strings
Str_rateLimit == <<"r", "a", "t", "e", "L", "i", "m", "i", "t">>
Code_rateLimited == <<"r", "a", "t", "e", "L", "i", "m", "i", "t", "e", "d">>
Code_apiKeyInvalid == <<"a", "p", "i", "K", "e", "y", "I", "n", "v", "a", "l", "i", "d">>

\* str.lower on one character
LowerChar(c) ==
    CASE c = "L" -> "l"
      [] c = "K" -> "k"
      [] c = "I" -> "i"
      [] c = "R" -> "r"
      [] c = "E" -> "e"
      [] c = "F" -> "f"
      [] c = "T" -> "t"
      [] c = "G" -> "g"
      [] c = "H" -> "h"
      [] OTHER -> c

\* str.lower
Lower(s) == [i \in 1..Len(s) |-> LowerChar(s[i])]

\* the Python test `needle in hay` on strings
Contains(needle, hay) ==
    \E k \in 0..(Len(hay) - Len(needle)) :
        \A i \in 1..Len(needle) : hay[k + i] = needle[i]

(***************************************************************************)
(* search.py: the credential pool and search_news.                         *)
(***************************************************************************)
\* the pool, in the order of the environment's numbered keys
NEWS_API_KEYS == [i \in 1..NumKeys |-> i]

\* _get_next_api_key without the advance of the pointer
GetNextApiKey_Stuck(idx) == [key |-> NEWS_API_KEYS[idx + 1], index |-> idx]

\* _get_next_api_key advancing the pointer by two
GetNextApiKey_Skip(idx) ==
    [key |-> NEWS_API_KEYS[idx + 1], index |-> (idx + 2) % Len(NEWS_API_KEYS)]

\* _get_next_api_key, from pointer value idx: the key and the new pointer
GetNextApiKey(idx) ==
    [key |-> NEWS_API_KEYS[idx + 1], index |-> (idx + 1) % Len(NEWS_API_KEYS)]

\* what the provider may answer to one request (None: no response at all)
Unreachable == [status_code |-> 0, status |-> "none", code |-> <<>>, payload |-> "none"]

HttpAnswers ==
    { [status_code |-> sc, status |-> "error", code |-> Code_rateLimited, payload |-> "none"] :
        sc \in {429, 500} }

BodyAnswers ==
    { [status_code |-> 200, status |-> "ok", code |-> <<>>, payload |-> p] :
        p \in {"data1", "data2"} }
    \cup
    { [status_code |-> 200, status |-> "error", code |-> c, payload |-> "none"] :
        c \in {Code_rateLimited, Code_apiKeyInvalid} }

Answers == {Unreachable} \cup HttpAnswers \cup BodyAnswers

\* response.raise_for_status(): an HTTPError for a 4xx or 5xx status
RaisesForStatus(ans) == ans.status_code >= 400 /\ ans.status_code < 600

\* the test on the error body's code
IsRateLimitCode(code) == Contains(Str_rateLimit, Lower(code))

\* the same, with an HTTP error handled like any other exception
AttemptStep_HttpRetried(ans, attempt, max_retries) ==
    IF ans = Unreachable \/ RaisesForStatus(ans) THEN
        IF ans # Unreachable /\ ans.status_code = 429
        THEN [exit |-> "continue", error |-> "none"]
        ELSE IF attempt = max_retries - 1
             THEN [exit |-> "raise",
                   error |-> IF ans = Unreachable THEN "ConnectionError" ELSE "HTTPError"]
             ELSE [exit |-> "next", error |-> "none"]
    ELSE IF ans.status = "error" THEN
        IF IsRateLimitCode(ans.code)
        THEN [exit |-> "continue", error |-> "none"]
        ELSE IF attempt = max_retries - 1
             THEN [exit |-> "raise", error |-> "APIError"]
             ELSE [exit |-> "next", error |-> "none"]
    ELSE [exit |-> "return", error |-> "none"]

\* the same, with the last attempt's exception swallowed like the earlier ones
AttemptStep_Swallow(ans, attempt, max_retries) ==
    IF ans = Unreachable THEN [exit |-> "next", error |-> "none"]
    ELSE IF RaisesForStatus(ans) THEN
        IF ans.status_code = 429
        THEN [exit |-> "continue", error |-> "none"]
        ELSE [exit |-> "raise", error |-> "HTTPError"]
    ELSE IF ans.status = "error" THEN
        IF IsRateLimitCode(ans.code)
        THEN [exit |-> "continue", error |-> "none"]
        ELSE [exit |-> "next", error |-> "none"]
    ELSE [exit |-> "return", error |-> "none"]

\* the same, with a successful answer not returned but followed by the next
\* iteration
AttemptStep_NoReturn(ans, attempt, max_retries) ==
    IF ans = Unreachable THEN
        IF attempt = max_retries - 1
        THEN [exit |-> "raise", error |-> "ConnectionError"]
        ELSE [exit |-> "next", error |-> "none"]
    ELSE IF RaisesForStatus(ans) THEN
        IF ans.status_code = 429
        THEN [exit |-> "continue", error |-> "none"]
        ELSE [exit |-> "raise", error |-> "HTTPError"]
    ELSE IF ans.status = "error" THEN
        IF IsRateLimitCode(ans.code)
        THEN [exit |-> "continue", error |-> "none"]
        ELSE IF attempt = max_retries - 1
             THEN [exit |-> "raise", error |-> "APIError"]
             ELSE [exit |-> "next", error |-> "none"]
    ELSE [exit |-> "next", error |-> "none"]

\* one pass through the body of the for loop, as the way it leaves the body:
\* "return", "continue", "raise" (leaves search_news) or "next" (falls out of
\* the try statement to the next iteration)
AttemptStep(ans, attempt, max_retries) ==
    IF ans = Unreachable THEN
        \* requests.get raised; except Exception
        IF attempt = max_retries - 1
        THEN [exit |-> "raise", error |-> "ConnectionError"]
        ELSE [exit |-> "next", error |-> "none"]
    ELSE IF RaisesForStatus(ans) THEN
        \* except requests.exceptions.HTTPError
        IF ans.status_code = 429
        THEN [exit |-> "continue", error |-> "none"]
        ELSE [exit |-> "raise", error |-> "HTTPError"]
    ELSE IF ans.status = "error" THEN
        IF IsRateLimitCode(ans.code)
        THEN [exit |-> "continue", error |-> "none"]
        ELSE \* raise Exception("API Error: ..."), caught by except Exception
             IF attempt = max_retries - 1
             THEN [exit |-> "raise", error |-> "APIError"]
             ELSE [exit |-> "next", error |-> "none"]
    ELSE [exit |-> "return", error |-> "none"]

\* the for loop of search_news from iteration `attempt` (0-based) on, with the
\* pointer at idx; answers[i] is the provider's answer to the i-th request.
\* keys: the keys of the requests issued so far.
RECURSIVE SearchNewsFrom(_, _, _, _, _)
SearchNewsFrom(attempt, idx, keys, max_retries, answers) ==
    IF attempt >= max_retries THEN
        [outcome |-> "raise", error |-> "FailedAfterAttempts", data |-> "none",
         keys |-> keys, index |-> idx]
    ELSE
        LET got  == GetNextApiKey(idx)
            ans  == answers[attempt + 1]
            step == AttemptStep(ans, attempt, max_retries)
            used == Append(keys, got.key)
        IN  CASE step.exit = "return" ->
                    [outcome |-> "return", error |-> "none", data |-> ans.payload,
                     keys |-> used, index |-> got.index]
              [] step.exit = "raise" ->
                    [outcome |-> "raise", error |-> step.error, data |-> "none",
                     keys |-> used, index |-> got.index]
              [] OTHER ->
                    SearchNewsFrom(attempt + 1, got.index, used, max_retries, answers)

\* search_news(query, domains, max_retries=...) with the pointer at idx
SearchNews(idx, max_retries, answers) ==
    SearchNewsFrom(0, idx, <<>>, max_retries, answers)

(***************************************************************************)
(* config.py                                                               *)
(***************************************************************************)
\* domain -> source, bias (and scraper), in the order of the dict literal
OUTLETS ==
    << [domain |-> "cnn.com",        source |-> "CNN",       bias |-> "left"],
       [domain |-> "cbsnews.com",    source |-> "CBS News",  bias |-> "left"],
       [domain |-> "nbcnews.com",    source |-> "NBC News",  bias |-> "left"],
       [domain |-> "abcnews.go.com", source |-> "ABC News",  bias |-> "left"],
       [domain |-> "foxnews.com",    source |-> "Fox News",  bias |-> "right"],
       [domain |-> "breitbart.com",  source |-> "Breitbart", bias |-> "right"],
       [domain |-> "nypost.com",     source |-> "NY Post",   bias |-> "right"],
       [domain |-> "oann.com",       source |-> "OANN",      bias |-> "right"] >>

MAX_LEFT_ARTICLES == 20
MAX_RIGHT_ARTICLES == 20
MAX_TOTAL_ARTICLES == 50
MIN_CONTENT_LENGTH == 100

(***************************************************************************)
(* utils.py and sentiment.py: the functions /search applies to an item.    *)
(***************************************************************************)
\* A URL is the host it names, a domain name its path or query may mention
\* ("" for none) and the rest of the text, which tells URLs of a host apart.
Url(host, ref, id) == [host |-> host, ref |-> ref, id |-> id]

\* the Python test `domain in url`
DomainInUrl(domain, url) == url.host = domain \/ url.ref = domain

\* Python's None
None == [none |-> TRUE]

\* A text is a sequence of runs: n characters of markup matching <[^>]+>
\* ("tag"), of whitespace ("ws") or of other characters ("text").
Run(k, n) == [k |-> k, n |-> n]

RECURSIVE TextLen(_)
TextLen(runs) == IF runs = <<>> THEN 0 ELSE runs[1].n + TextLen(Tail(runs))

\* re.sub(r"<[^>]+>", "", text)
RemoveTags(runs) == SelectSeq(runs, LAMBDA r : r.k # "tag")

\* re.sub(r"\s+", " ", text): every maximal stretch of whitespace becomes one space
RECURSIVE CollapseSpace(_)
CollapseSpace(runs) ==
    IF runs = <<>> THEN <<>>
    ELSE IF runs[1].k = "ws"
         THEN LET rest == CollapseSpace(Tail(runs))
              IN  IF rest # <<>> /\ rest[1].k = "ws" THEN rest
                  ELSE <<Run("ws", 1)>> \o rest
         ELSE <<runs[1]>> \o CollapseSpace(Tail(runs))

\* str.strip() of a text whose whitespace is collapsed
StripEnds(runs) ==
    LET front == IF runs # <<>> /\ runs[1].k = "ws" THEN Tail(runs) ELSE runs
    IN  IF front # <<>> /\ front[Len(front)].k = "ws"
        THEN SubSeq(front, 1, Len(front) - 1)
        ELSE front

\* a string value that may be None: the runs of the text when it is not
NoneText == [isnone |-> TRUE, runs |-> <<>>]
Text(runs) == [isnone |-> FALSE, runs |-> runs]

\* strip_html_tags without the removal of the tags
StripHtmlTags_KeepTags(text) ==
    IF text.isnone \/ text.runs = <<>> THEN text
    ELSE Text(StripEnds(CollapseSpace(text.runs)))

\* strip_html_tags(text); None and "" are returned as they are
StripHtmlTags(text) ==
    IF text.isnone \/ text.runs = <<>> THEN text
    ELSE Text(StripEnds(CollapseSpace(RemoveTags(text.runs))))

\* A timestamp of the provider: None, "" or a text that datetime.fromisoformat
\* parses (to the epoch second given) or rejects.
NoTime == [kind |-> "none", epoch |-> 0]
IsoTime(epoch) == [kind |-> "iso", epoch |-> epoch]
BadTime == [kind |-> "malformed", epoch |-> 0]

\* to_epoch_time(iso_timestamp): the error it raises, if any, and its result
ToEpochTime(ts) ==
    CASE ts.kind = "none" -> [raised |-> "none", value |-> 0]
      [] ts.kind = "iso" -> [raised |-> "none", value |-> ts.epoch]
      [] OTHER -> [raised |-> "ValueError", value |-> 0]

\* sentiment_analyzer.polarity_scores(text)["compound"], in hundredths: the
\* analyzer is a given; the model's titles carry the score of their texts
PolarityCompound(title) ==
    CASE title = "upbeat" -> 5
      [] title = "grim" -> -5
      [] title = "mild" -> 4
      [] OTHER -> 0

\* the conditional expression of analyze_sentiment with strict comparisons
SentimentCategory_Strict(compound_score) ==
    IF compound_score > 5 THEN "positive"
    ELSE IF compound_score < -5 THEN "negative"
    ELSE "neutral"

\* sentiment_category of analyze_sentiment: the thresholds 0.05 and -0.05 are
\* 5 and -5 hundredths
SentimentCategory(compound_score) ==
    IF compound_score >= 5 THEN "positive"
    ELSE IF compound_score <= -5 THEN "negative"
    ELSE "neutral"

\* analyze_sentiment from the compound score on: (sentiment_category, compound_score)
SentimentOf(compound_score) ==
    [category |-> SentimentCategory(compound_score), score |-> compound_score]

\* analyze_sentiment(title, content)
AnalyzeSentiment(title, content) ==
    LET compound_score == PolarityCompound(title)
    IN  SentimentOf(compound_score)

\* reddit_sentiment.py, get_reddit_search_data: the if / elif / else on the
\* compound score of a submission
RedditScriptCategory(compound_score) ==
    IF compound_score >= 5 THEN "positive"
    ELSE IF compound_score <= -5 THEN "negative"
    ELSE "neutral"

\* bluesky.py: the if / elif / else on the compound score of a post
BlueskyScriptCategory(compound_score) ==
    IF compound_score >= 5 THEN "positive"
    ELSE IF compound_score <= -5 THEN "negative"
    ELSE "neutral"

\* str.strip() on a string of characters
IsSpaceChar(c) == c \in {" ", "\n", "\t"}

RECURSIVE StripFront(_)
StripFront(s) ==
    IF s # <<>> /\ IsSpaceChar(s[1]) THEN StripFront(Tail(s)) ELSE s

RECURSIVE StripBack(_)
StripBack(s) ==
    IF s # <<>> /\ IsSpaceChar(s[Len(s)]) THEN StripBack(SubSeq(s, 1, Len(s) - 1)) ELSE s

StripStr(s) == StripBack(StripFront(s))

Str_left == <<"l", "e", "f", "t">>
Str_right == <<"r", "i", "g", "h", "t">>

\* what the text-generation call of classify_bias may do: fail, or answer a text
LlmFailed == [failed |-> TRUE, text |-> <<>>]
LlmSays(text) == [failed |-> FALSE, text |-> text]

LlmAnswers ==
    { LlmFailed,
      LlmSays(Str_left),
      LlmSays(<<" ", "R", "i", "g", "h", "t", "\n">>),
      LlmSays(<<"c", "e", "n", "t", "e", "r">>) }

\* classify_bias without its fallback for an answer that is no label
ClassifyBias_NoFallback(answer) ==
    IF answer.failed THEN "left"
    ELSE LET bias == Lower(StripStr(answer.text))
         IN  IF bias = Str_right THEN "right"
             ELSE IF bias = Str_left THEN "left" ELSE "other"

\* classify_bias(title, content, subreddit), given what the call does
ClassifyBias(answer) ==
    IF answer.failed THEN "left"
    ELSE LET bias == Lower(StripStr(answer.text))
         IN  IF bias \in {Str_left, Str_right}
             THEN (IF bias = Str_right THEN "right" ELSE "left")
             ELSE "left"

(***************************************************************************)
(* server.py: the news loop of /search.                                    *)
(***************************************************************************)
\* next((info for domain, info in OUTLETS.items() if domain in url), None):
\* the position of the first outlet whose domain occurs in the URL, 0 for None.
\* First the same with the first outlet as the default instead of None.
FindOutlet_Default(url) ==
    LET hits == { i \in 1..Len(OUTLETS) : DomainInUrl(OUTLETS[i].domain, url) }
    IN  IF hits = {} THEN 1 ELSE CHOOSE i \in hits : \A j \in hits : i <= j

\* the same with None for no match
FindOutlet(url) ==
    LET hits == { i \in 1..Len(OUTLETS) : DomainInUrl(OUTLETS[i].domain, url) }
    IN  IF hits = {} THEN 0 ELSE CHOOSE i \in hits : \A j \in hits : i <= j

\* the record /search builds for an admitted article
NewsOutput(article, outlet, clean_content, date) ==
    LET sent == AnalyzeSentiment(article.title, clean_content)
    IN  [source |-> outlet.source,
         title |-> article.title,
         url |-> article.url,
         contents |-> clean_content,
         bias |-> outlet.bias,
         sentiment |-> sent.category,
         sentiment_score |-> sent.score,
         author |-> article.author,
         date |-> date]

\* the state of the loop: the error raised, if any, and the loop's variables
LoopState(raised, outputs, left_count, right_count) ==
    [raised |-> raised, outputs |-> outputs,
     left_count |-> left_count, right_count |-> right_count]

\* the loop `for article in results` from position i on
RECURSIVE NewsLoop_NoBiasCap(_, _, _, _, _)
NewsLoop_NoBiasCap(results, i, outputs, left_count, right_count) ==
    IF i > Len(results) \/ Len(outputs) >= MAX_TOTAL_ARTICLES
    THEN LoopState("none", outputs, left_count, right_count)
    ELSE
        LET article == results[i]
            o       == FindOutlet(article.url)
            clean   == StripHtmlTags(article.content)
            date    == ToEpochTime(article.publishedAt)
        IN  IF o = 0 THEN
                NewsLoop_NoBiasCap(results, i + 1, outputs, left_count, right_count)
            ELSE IF clean.isnone THEN
                LoopState("TypeError", outputs, left_count, right_count)
            ELSE IF TextLen(clean.runs) < MIN_CONTENT_LENGTH THEN
                NewsLoop_NoBiasCap(results, i + 1, outputs, left_count, right_count)
            ELSE IF date.raised # "none" THEN
                LoopState(date.raised, outputs, left_count, right_count)
            ELSE
                NewsLoop_NoBiasCap(results, i + 1,
                    Append(outputs, NewsOutput(article, OUTLETS[o], clean, date.value)),
                    IF OUTLETS[o].bias = "left" THEN left_count + 1 ELSE left_count,
                    IF OUTLETS[o].bias = "left" THEN right_count ELSE right_count + 1)

\* the loop leaving (break) at the first article of a bias that is at its cap
RECURSIVE NewsLoop_BreakAtCap(_, _, _, _, _)
NewsLoop_BreakAtCap(results, i, outputs, left_count, right_count) ==
    IF i > Len(results) \/ Len(outputs) >= MAX_TOTAL_ARTICLES
    THEN LoopState("none", outputs, left_count, right_count)
    ELSE
        LET article == results[i]
            o       == FindOutlet(article.url)
            clean   == StripHtmlTags(article.content)
            date    == ToEpochTime(article.publishedAt)
            isleft  == OUTLETS[o].bias = "left"
        IN  IF o = 0 THEN
                NewsLoop_BreakAtCap(results, i + 1, outputs, left_count, right_count)
            ELSE IF clean.isnone THEN
                LoopState("TypeError", outputs, left_count, right_count)
            ELSE IF TextLen(clean.runs) < MIN_CONTENT_LENGTH THEN
                NewsLoop_BreakAtCap(results, i + 1, outputs, left_count, right_count)
            ELSE IF isleft /\ left_count >= MAX_LEFT_ARTICLES THEN
                LoopState("none", outputs, left_count, right_count)
            ELSE IF ~isleft /\ right_count >= MAX_RIGHT_ARTICLES THEN
                LoopState("none", outputs, left_count, right_count)
            ELSE IF date.raised # "none" THEN
                LoopState(date.raised, outputs,
                          IF isleft THEN left_count + 1 ELSE left_count,
                          IF isleft THEN right_count ELSE right_count + 1)
            ELSE
                NewsLoop_BreakAtCap(results, i + 1,
                    Append(outputs, NewsOutput(article, OUTLETS[o], clean, date.value)),
                    IF isleft THEN left_count + 1 ELSE left_count,
                    IF isleft THEN right_count ELSE right_count + 1)

RECURSIVE NewsLoop(_, _, _, _, _)
NewsLoop(results, i, outputs, left_count, right_count) ==
    IF i > Len(results) \/ Len(outputs) >= MAX_TOTAL_ARTICLES
    THEN LoopState("none", outputs, left_count, right_count)
    ELSE
        LET article == results[i]
            o       == FindOutlet(article.url)
            clean   == StripHtmlTags(article.content)
            date    == ToEpochTime(article.publishedAt)
            isleft  == OUTLETS[o].bias = "left"
        IN  IF o = 0 THEN
                NewsLoop(results, i + 1, outputs, left_count, right_count)
            ELSE IF clean.isnone THEN
                \* len(None)
                LoopState("TypeError", outputs, left_count, right_count)
            ELSE IF TextLen(clean.runs) < MIN_CONTENT_LENGTH THEN
                NewsLoop(results, i + 1, outputs, left_count, right_count)
            ELSE IF isleft /\ left_count >= MAX_LEFT_ARTICLES THEN
                NewsLoop(results, i + 1, outputs, left_count, right_count)
            ELSE IF ~isleft /\ right_count >= MAX_RIGHT_ARTICLES THEN
                NewsLoop(results, i + 1, outputs, left_count, right_count)
            ELSE IF date.raised # "none" THEN
                \* to_epoch_time raises while the record is built
                LoopState(date.raised, outputs,
                          IF isleft THEN left_count + 1 ELSE left_count,
                          IF isleft THEN right_count ELSE right_count + 1)
            ELSE
                NewsLoop(results, i + 1,
                    Append(outputs, NewsOutput(article, OUTLETS[o], clean, date.value)),
                    IF isleft THEN left_count + 1 ELSE left_count,
                    IF isleft THEN right_count ELSE right_count + 1)

\* lines 102-150 of search: the loop over news_results["articles"]
FilterNews(results) == NewsLoop(results, 1, <<>>, 0, 0)

(***************************************************************************)
(* database.py: the session store.                                         *)
(***************************************************************************)
\* A session id as the client sends it: a string. uuid.UUID accepts the
\* hyphenated form str() produces and also, among others, the same digits in
\* braces; any other text makes it raise ValueError.
UuidStr(u) == [form |-> "canonical", n |-> u]
BracedStr(u) == [form |-> "braced", n |-> u]
MalformedStr == [form |-> "malformed", n |-> 0]

\* uuid.UUID(session_id): does it raise, and the UUID it yields
UuidRaises(session_id) == session_id.form = "malformed"
UuidOf(session_id) == session_id.n

\* json.dumps and json.loads on an article record
JsonDumps(data) == [json |-> data]
JsonLoads(text) == text.json

\* the rows of a table articles keyed by url alone
MatchingRows_AnySession(tbl, uuid, url) ==
    { i \in 1..Len(tbl) : tbl[i].url = url }

\* the rows of table articles that match (session_id, url), by position
MatchingRows(tbl, uuid, url) ==
    { i \in 1..Len(tbl) : tbl[i].session_id = uuid /\ tbl[i].url = url }

\* INSERT INTO articles ... with no ON CONFLICT clause
UpsertRow_Insert(tbl, uuid, url, text) ==
    Append(tbl, [session_id |-> uuid, url |-> url, data |-> text])

\* INSERT INTO articles ... ON CONFLICT (session_id, url) DO NOTHING
UpsertRow_DoNothing(tbl, uuid, url, text) ==
    IF MatchingRows(tbl, uuid, url) = {}
    THEN Append(tbl, [session_id |-> uuid, url |-> url, data |-> text])
    ELSE tbl

\* INSERT INTO articles ... ON CONFLICT (session_id, url) DO UPDATE SET data = $3
UpsertRow(tbl, uuid, url, text) ==
    IF MatchingRows(tbl, uuid, url) = {}
    THEN Append(tbl, [session_id |-> uuid, url |-> url, data |-> text])
    ELSE [i \in 1..Len(tbl) |->
            IF i \in MatchingRows(tbl, uuid, url)
            THEN [tbl[i] EXCEPT !.data = text]
            ELSE tbl[i]]

\* conn.executemany running the statement for the first argument tuple only
ExecuteMany_FirstOnly(tbl, uuid, batch) ==
    IF batch = <<>> THEN tbl
    ELSE UpsertRow(tbl, uuid, batch[1][1], JsonDumps(batch[1][2]))

\* conn.executemany: the statement once per argument tuple, in order
RECURSIVE ExecuteMany(_, _, _)
ExecuteMany(tbl, uuid, batch) ==
    IF batch = <<>> THEN tbl
    ELSE ExecuteMany(UpsertRow(tbl, uuid, batch[1][1], JsonDumps(batch[1][2])),
                     uuid, Tail(batch))

\* store_articles_batch replacing the rows of the session by the batch
StoreArticlesBatch_Replace(sess, tbl, session_id, batch) ==
    IF batch # <<>> /\ UuidRaises(session_id)
    THEN [raised |-> "ValueError", articles |-> tbl]
    ELSE IF batch # <<>> /\ UuidOf(session_id) \notin sess
    THEN [raised |-> "ForeignKeyViolation", articles |-> tbl]
    ELSE [raised |-> "none",
          articles |-> ExecuteMany(
              SelectSeq(tbl, LAMBDA row : row.session_id # UuidOf(session_id)),
              UuidOf(session_id), batch)]

\* store_articles_batch(session_id, articles) on tables (sess, tbl): the error
\* it raises, if any, and table articles afterwards. The rows reference
\* sessions(session_id): a row of an unknown session violates the foreign key
\* and the whole batch is undone.
StoreArticlesBatch(sess, tbl, session_id, batch) ==
    IF batch # <<>> /\ UuidRaises(session_id)
    THEN [raised |-> "ValueError", articles |-> tbl]
    ELSE IF batch # <<>> /\ UuidOf(session_id) \notin sess
    THEN [raised |-> "ForeignKeyViolation", articles |-> tbl]
    ELSE [raised |-> "none", articles |-> ExecuteMany(tbl, UuidOf(session_id), batch)]

\* store_article(session_id, url, article_data)
StoreArticle(sess, tbl, session_id, url, data) ==
    IF UuidRaises(session_id)
    THEN [raised |-> "ValueError", articles |-> tbl]
    ELSE IF UuidOf(session_id) \notin sess
    THEN [raised |-> "ForeignKeyViolation", articles |-> tbl]
    ELSE [raised |-> "none",
          articles |-> UpsertRow(tbl, UuidOf(session_id), url, JsonDumps(data))]

\* session_exists(session_id): the error it raises, if any, and its result
SessionExists(sess, session_id) ==
    IF UuidRaises(session_id)
    THEN [raised |-> "ValueError", value |-> FALSE]
    ELSE [raised |-> "none", value |-> UuidOf(session_id) \in sess]

\* get_article(session_id, url): fetchrow yields one of the matching rows
GetArticle(tbl, session_id, url) ==
    IF UuidRaises(session_id)
    THEN [raised |-> "ValueError", value |-> None]
    ELSE LET rows == MatchingRows(tbl, UuidOf(session_id), url)
         IN  IF rows = {}
             THEN [raised |-> "none", value |-> None]
             ELSE [raised |-> "none",
                   value |-> JsonLoads(tbl[CHOOSE i \in rows : \A j \in rows : i <= j].data)]

\* create_session(): uuid.uuid4() yields an id no session has
FreshUuid(sess) == Cardinality(sess) + 1

(***************************************************************************)
(* What the provider and the clients supply.                               *)
(***************************************************************************)
\* contents of exactly MIN_CONTENT_LENGTH characters once stripped
BodyAtThreshold ==
    Text(<<Run("ws", 2), Run("text", 60), Run("tag", 4), Run("ws", 3),
           Run("tag", 5), Run("ws", 1), Run("text", 39)>>)
\* contents one character short of it once stripped, longer before
BodyBelowThreshold ==
    Text(<<Run("text", 60), Run("tag", 40), Run("text", 39)>>)
BodyLong == Text(<<Run("text", 150)>>)

\* the j-th article of a kind, as the provider returns it
NewsArticle(kind, j) ==
    CASE kind = "cnn" ->
            [url |-> Url("cnn.com", "", j), title |-> "upbeat", author |-> "a",
             content |-> BodyAtThreshold, publishedAt |-> IsoTime(j)]
      [] kind = "fox" ->
            [url |-> Url("foxnews.com", "", j), title |-> "grim", author |-> "b",
             content |-> BodyLong, publishedAt |-> NoTime]
      [] kind = "short" ->
            [url |-> Url("cbsnews.com", "", j), title |-> "mild", author |-> "c",
             content |-> BodyBelowThreshold, publishedAt |-> IsoTime(j)]
      [] kind = "nocontent" ->
            \* "content": null in the provider's JSON
            [url |-> Url("nbcnews.com", "", j), title |-> "plain", author |-> "e",
             content |-> NoneText, publishedAt |-> IsoTime(j)]
      [] kind = "badtime" ->
            [url |-> Url("nypost.com", "", j), title |-> "plain", author |-> "f",
             content |-> BodyLong, publishedAt |-> BadTime]
      [] kind = "mention" ->
            \* a page of another site whose URL names an outlet's domain
            [url |-> Url("example.org", "cnn.com", j), title |-> "plain", author |-> "g",
             content |-> BodyLong, publishedAt |-> IsoTime(j)]
      [] OTHER ->
            [url |-> Url("example.org", "", j), title |-> "plain", author |-> "d",
             content |-> BodyLong, publishedAt |-> IsoTime(j)]

\* the record of the j-th article of an outlet's kind, with a title
StoredNews(kind, j, title) ==
    LET article == [NewsArticle(kind, j) EXCEPT !.title = title]
    IN  NewsOutput(article, OUTLETS[FindOutlet(article.url)],
                   StripHtmlTags(article.content),
                   ToEpochTime(article.publishedAt).value)

\* a run of n like articles, and the result list a sequence of runs makes
Block(kind, n) == [kind |-> kind, n |-> n]

RECURSIVE Expand(_)
Expand(blocks) ==
    IF blocks = <<>> THEN <<>>
    ELSE [j \in 1..blocks[1].n |-> NewsArticle(blocks[1].kind, j)] \o Expand(Tail(blocks))

ProviderLists(blockset) ==
    { Expand(bs) : bs \in UNION { [1..n -> blockset] : n \in 0..MaxBlocks } }

\* the result lists of the provider in a /search
SearchBlocks ==
    { Block("cnn", 1), Block("cnn", MAX_LEFT_ARTICLES + 1),
      Block("fox", 1), Block("fox", MAX_RIGHT_ARTICLES + 1),
      Block("blog", 1), Block("short", 1), Block("mention", 1),
      Block("nocontent", 1), Block("badtime", 1) }

\* result lists that mix the kinds: a bias at its cap followed by the other
\* bias, and articles around one that is dropped or that fails
MixedLists ==
    { Expand(<<Block("cnn", MAX_LEFT_ARTICLES + 1), Block("fox", 1)>>),
      Expand(<<Block("fox", MAX_RIGHT_ARTICLES + 1), Block("cnn", 1)>>),
      Expand(<<Block("cnn", 1), Block("blog", 1), Block("short", 1), Block("fox", 1)>>),
      Expand(<<Block("cnn", 1), Block("badtime", 1), Block("fox", 1)>>) }

\* a result list in which the provider gives one URL twice, the second time
\* with another title
RepeatedLists ==
    { <<NewsArticle("cnn", 1), NewsArticle("fox", 1),
        [NewsArticle("cnn", 1) EXCEPT !.title = "grim"]>> }

\* news_results["articles"] of a /search
SearchLists == ProviderLists(SearchBlocks) \cup MixedLists \cup RepeatedLists

\* what the provider answers to a request of a /search
SearchAnswers ==
    { ans \in Answers : ans = Unreachable \/ ans.status_code = 429 \/ ans.payload = "data1" }

\* the j-th post a social adapter returns
SocialPost(source, j) ==
    [source |-> source,
     title |-> "mild",
     \* a Reddit post's URL names the page it links to
     url |-> IF source = "Reddit" THEN Url("reddit.com", "cnn.com", j)
             ELSE Url("bsky.app", "", j),
     contents |-> Text(<<Run("text", 30)>>),
     author |-> "u",
     date |-> j]

\* what a social adapter's upstream does: fail, or return the first n posts
AdapterFailed == [failed |-> TRUE, n |-> 0]
AdapterFound(n) == [failed |-> FALSE, n |-> n]
AdapterOutcomes == {AdapterFailed} \cup { AdapterFound(n) : n \in 0..MaxPosts }

\* search_reddit and search_bluesky: a failed adapter contributes an empty list
SearchSocial(source, outcome) ==
    IF outcome.failed THEN <<>>
    ELSE [j \in 1..outcome.n |-> SocialPost(source, j)]

\* full texts a scraper may return for a page
ScrapedTexts == { Text(<<Run("text", 2500)>>), Text(<<Run("text", 3500)>>) }

\* URLs a client may send to /summary and /insights
ClientUrls ==
    { Url("cnn.com", "", 1), Url("foxnews.com", "", 1), Url("reddit.com", "cnn.com", 1),
      Url("cnn.com", "", 0) }

ClientItems ==
    UNION { [1..n -> { [url |-> u, bias |-> b] : u \in ClientUrls, b \in {"left", "right"} }] :
            n \in 0..MaxItems }

\* session ids a client may send
SessionStrings ==
    { UuidStr(n) : n \in 1..(MaxSessions + 1) } \cup {BracedStr(1), MalformedStr}
StoreSessionStrings ==
    { UuidStr(n) : n \in 1..StoreSessions } \cup {BracedStr(1), MalformedStr}

(***************************************************************************)
(* State.                                                                  *)
(***************************************************************************)
VARIABLES
    current_key_index,  \* search.py: _current_key_index
    news_call,          \* a search_news call made on its own: arguments, progress, result,
                        \* and the last key fetched before the call (0: none)
    sessions,           \* database: the session_id column of table sessions
    articles,           \* database: the rows of table articles, in insertion order
    store_log,          \* the store operations made on their own: the last one, and
                        \* the data last upserted for each (session, url)
    bluesky_logged_in,  \* server.py: bluesky_logged_in
    scraped_content_cache,  \* server.py: scraped_content_cache, URL -> full text
    req,                \* the requests being served: handler, position, locals, response
    returned,           \* the (session, url) pairs of the /search responses sent so far
    scraper_log,        \* the scraper calls made so far: what each was made for and
                        \* how it ended, how often a scraper returned per URL, and
                        \* for which sessions' requests it returned (by)
    probe,              \* a function applied on its own: its name, argument and result
    fetchers,           \* the worker threads of search_news inside _get_next_api_key
    logins,             \* how many calls of bluesky_client.login have returned
    cli                 \* reddit.py: a run of search_posts_by_query from the selection
                        \* on: the semaphore, its waiters, the tasks and the saved file

NoCall ==
    [made |-> FALSE, done |-> FALSE, start |-> 0, max_retries |-> 0,
     answers |-> <<>>, keys |-> <<>>, prev_key |-> 0,
     outcome |-> "none", error |-> "none", data |-> "none"]

StoreUrls == { Url("cnn.com", "", 1), Url("foxnews.com", "", 1) }
StoreKinds == [u \in StoreUrls |-> IF u.host = "cnn.com" THEN "cnn" ELSE "fox"]
StoreItems ==
    { <<u, StoredNews(StoreKinds[u], 1, t)>> : u \in StoreUrls, t \in {"upbeat", "grim"} }
StoreBatches ==
    UNION { [1..n -> StoreItems] : n \in 0..MaxBatch }

\* does a batch hold two items of one URL with different data
Rewrites(batch) ==
    \E i, j \in 1..Len(batch) :
        i < j /\ batch[i][1] = batch[j][1] /\ batch[i][2] # batch[j][2]

NoStoreLog ==
    [op |-> "none", raised |-> "none", rewrites |-> FALSE,
     last |-> [k \in (1..StoreSessions) \X StoreUrls |-> None]]

\* the request slots: a handler runs in a slot from its first step to its response
Slots == {"a", "b"}

NoUrl == Url("", "", 0)
NoTask == [done |-> FALSE, value |-> <<>>]
NoBody ==
    [session_id |-> MalformedStr, results |-> <<>>, url |-> NoUrl, title |-> "",
     source |-> "", text |-> NoneText, left |-> <<>>, right |-> <<>>, error |-> ""]

\* no function applied yet
NoProbe == [fn |-> "none", arg |-> <<>>, result |-> <<>>]

\* the worker threads that run search_news (asyncio.to_thread), as far as
\* _get_next_api_key goes: where each thread is, the key it took, the pointer
\* value it loaded for the advance; the fetches begun and ended, and the log
\* of the pointer values read for a key ("read") and of the stores ("write")
Threads == 1..NumThreads
NoFetchers ==
    [pc |-> [t \in Threads |-> "idle"], key |-> [t \in Threads |-> 0],
     loaded |-> [t \in Threads |-> 0], begun |-> 0, fetches |-> 0, log |-> <<>>]

\* reddit.py: the posts a run may select, by their index in the selection
MaxSelected == 6
Selected == 1..MaxSelected

\* max_workers = min(5, len(selected_posts)) with every post given a worker
MaxWorkers_OnePerPost(n) == n

\* max_workers = min(5, len(selected_posts))
MaxWorkers(n) == IF n < 5 THEN n ELSE 5

\* the result of a task that has not ended, and what scrape_single_post returns
Pending == [kind |-> "pending", index |-> 0]
NoPost == [kind |-> "None", index |-> 0]
PostData(i) == [kind |-> "post_data", index |-> i]

\* before the selection
NoCli ==
    [phase |-> "search", n |-> 0, value |-> 0, waiters |-> <<>>, started |-> 0,
     pc |-> [i \in Selected |-> "none"], results |-> [i \in Selected |-> Pending],
     scraped_posts |-> <<>>]

\* no scraper called yet
NoScraperLog == [calls |-> {}, returns |-> <<>>, by |-> {}]

\* the log after a scraper call for a URL, made for an article of a source
\* while the URL was or was not in the cache, that returned (ok) or raised
ScraperCalled(log, url, source, cached, ok) ==
    [calls |-> log.calls \cup {[source |-> source, cached |-> cached]},
     by |-> log.by,
     returns |-> IF ~ok THEN log.returns
                 ELSE [u \in DOMAIN log.returns \cup {url} |->
                         IF u # url THEN log.returns[u]
                         ELSE IF u \in DOMAIN log.returns
                              THEN (IF log.returns[u] < 2 THEN log.returns[u] + 1 ELSE 2)
                              ELSE 1]]

\* a request slot also records the order in which the adapter tasks of a
\* /search completed (completed), whether its store_articles_batch has
\* returned (stored), the texts taken (used), how the text-generation call
\* of /summary or /insights ended (generation), the classify_bias calls it
\* has issued with the label each returned (bias_tasks) and the order in which
\* they ended (bias_order).
\* the text a handler took for an article, and where from: "cache", "scraper",
\* "raised" (the stored contents, after the scraper raised) or "stored"
Used(url, source, from, content) ==
    [url |-> url, source |-> source, from |-> from, content |-> content]

Idle ==
    [pc |-> "idle", kind |-> "none", session_id |-> MalformedStr, url |-> NoUrl,
     items |-> <<>>, i |-> 1, news |-> NoTask, reddit |-> NoTask, bluesky |-> NoTask,
     outputs |-> <<>>, articles_to_store |-> <<>>,
     article |-> None, content |-> NoneText,
     left_articles |-> <<>>, right_articles |-> <<>>, used |-> <<>>,
     completed |-> <<>>, stored |-> FALSE, generation |-> "none",
     bias_tasks |-> <<>>, bias_order |-> <<>>,
     status |-> 0, body |-> NoBody]

vars == <<current_key_index, news_call, sessions, articles, store_log,
          bluesky_logged_in, scraped_content_cache, req, returned, scraper_log,
          probe, fetchers, logins, cli>>

storeVars == <<sessions, articles, store_log>>
newsVars == <<current_key_index, news_call>>
serverVars == <<bluesky_logged_in, scraped_content_cache, req, returned, scraper_log>>
sideVars == <<probe, fetchers, logins, cli>>

Init ==
    /\ current_key_index = 0
    /\ news_call = NoCall
    /\ sessions = {}
    /\ articles = <<>>
    /\ store_log = NoStoreLog
    /\ bluesky_logged_in = FALSE
    /\ scraped_content_cache = <<>>
    /\ req = [r \in Slots |-> Idle]
    /\ returned = {}
    /\ scraper_log = NoScraperLog
    /\ probe = NoProbe
    /\ fetchers = NoFetchers
    /\ logins = 0
    /\ cli = NoCli

(***************************************************************************)
(* The store operations called on their own.                               *)
(***************************************************************************)
\* the data last upserted per (session, url), after a batch that succeeded
RECURSIVE LastAfter(_, _, _)
LastAfter(last, uuid, batch) ==
    IF batch = <<>> THEN last
    ELSE LastAfter([last EXCEPT ![<<uuid, batch[1][1]>>] = batch[1][2]],
                   uuid, Tail(batch))

StCreateSession ==
    /\ Cardinality(sessions) < StoreSessions
    /\ sessions' = sessions \cup {FreshUuid(sessions)}
    /\ store_log' = [store_log EXCEPT !.op = "create_session",
                        !.raised = "none", !.rewrites = FALSE]
    /\ UNCHANGED <<articles, newsVars, sideVars, serverVars>>

StStoreArticle ==
    \E session_id \in StoreSessionStrings, item \in StoreItems :
        LET res == StoreArticle(sessions, articles, session_id, item[1], item[2])
        IN  /\ articles' = res.articles
            /\ store_log' =
                 [op |-> "store_article", raised |-> res.raised, rewrites |-> FALSE,
                  last |-> IF res.raised = "none"
                           THEN LastAfter(store_log.last, UuidOf(session_id), <<item>>)
                           ELSE store_log.last]
            /\ UNCHANGED <<sessions, newsVars, sideVars, serverVars>>

StStoreArticlesBatch ==
    \E session_id \in StoreSessionStrings, batch \in StoreBatches :
        LET res == StoreArticlesBatch(sessions, articles, session_id, batch)
        IN  /\ articles' = res.articles
            /\ store_log' =
                 [op |-> "store_articles_batch", raised |-> res.raised,
                  rewrites |-> Rewrites(batch),
                  last |-> IF res.raised = "none"
                           THEN LastAfter(store_log.last, UuidOf(session_id), batch)
                           ELSE store_log.last]
            /\ UNCHANGED <<sessions, newsVars, sideVars, serverVars>>

NextStore == StCreateSession \/ StStoreArticle \/ StStoreArticlesBatch

SpecStore == Init /\ [][NextStore]_vars

\* C4: get_article(S, U) returns the record of the last upsert for (S, U)
\* (not-found when there was none), the store holds at most one row per
\* (S, U), and storing again the record that is stored changes nothing.
C4_LastWriteWins ==
    \A uuid \in 1..StoreSessions, url \in StoreUrls :
        LET got == GetArticle(articles, UuidStr(uuid), url)
        IN  /\ got.raised = "none"
            /\ got.value = store_log.last[<<uuid, url>>]
            /\ Cardinality(MatchingRows(articles, uuid, url)) <= 1
            /\ got.value # None =>
                 /\ StoreArticle(sessions, articles, UuidStr(uuid), url, got.value).articles
                        = articles
                 /\ StoreArticlesBatch(sessions, articles, BracedStr(uuid),
                        << <<url, got.value>>, <<url, got.value>> >>).articles = articles

\* a batch has upserted the same (S, U) twice with different data, over a
\* record stored before
C4_Witness ==
    /\ store_log.op = "store_articles_batch"
    /\ store_log.raised = "none"
    /\ store_log.rewrites
    /\ Len(articles) = 3
    /\ \A k \in DOMAIN store_log.last :
          store_log.last[k] # None =>
              GetArticle(articles, UuidStr(k[1]), k[2]).value = store_log.last[k]

(***************************************************************************)
(* search_news called on its own, one call at a time, one iteration of its *)
(* loop per step.                                                          *)
(***************************************************************************)
\* search_news is entered; with max_retries = 0 the loop body never runs
NewsCallStart ==
    /\ ~news_call.made \/ news_call.done
    /\ \E max_retries \in 0..MaxRetries :
         news_call' =
            [made |-> TRUE, done |-> (max_retries = 0), start |-> current_key_index,
             max_retries |-> max_retries, answers |-> <<>>, keys |-> <<>>,
             prev_key |-> IF news_call.keys = <<>> THEN news_call.prev_key
                          ELSE news_call.keys[Len(news_call.keys)],
             outcome |-> IF max_retries = 0 THEN "raise" ELSE "none",
             error |-> IF max_retries = 0 THEN "FailedAfterAttempts" ELSE "none",
             data |-> "none"]
    /\ UNCHANGED <<current_key_index, storeVars, serverVars, sideVars>>

\* one iteration of the loop: fetch a key, send the request, handle the
\* answer; after the last iteration the raise that follows the loop
NewsAttempt ==
    /\ news_call.made /\ ~news_call.done
    /\ \E ans \in Answers :
         LET attempt == Len(news_call.keys)
             got     == GetNextApiKey(current_key_index)
             step    == AttemptStep(ans, attempt, news_call.max_retries)
             last    == attempt + 1 >= news_call.max_retries
             leaves  == step.exit \in {"return", "raise"} \/ last
         IN  /\ current_key_index' = got.index
             /\ news_call' =
                  [news_call EXCEPT
                     !.answers = Append(@, ans),
                     !.keys = Append(@, got.key),
                     !.done = leaves,
                     !.outcome = CASE step.exit = "return" -> "return"
                                   [] step.exit = "raise" -> "raise"
                                   [] last -> "raise"
                                   [] OTHER -> "none",
                     !.error = CASE step.exit = "return" -> "none"
                                 [] step.exit = "raise" -> step.error
                                 [] last -> "FailedAfterAttempts"
                                 [] OTHER -> "none",
                     !.data = IF step.exit = "return" THEN ans.payload ELSE "none"]
    /\ UNCHANGED <<storeVars, serverVars, sideVars>>

NextNews == NewsCallStart \/ NewsAttempt

SpecNews == Init /\ [][NextNews]_vars

\* the same where a call that has begun goes on: every request of the loop
\* comes back with one of the answers, and the loop body then runs
SpecNewsLive == SpecNews /\ WF_vars(NewsAttempt)

(***************************************************************************)
(* Claims about search_news.                                               *)
(***************************************************************************)
\* an answer that tells the caller it is rate-limited: HTTP 429, or an error
\* body whose code is the provider's rate-limit code
IsHttp429(ans) == ans.status_code = 429
IsRateLimitBody(ans) ==
    ans.status_code = 200 /\ ans.status = "error" /\ ans.code = Code_rateLimited
IsRateLimited(ans) == IsHttp429(ans) \/ IsRateLimitBody(ans)
IsOtherHttpError(ans) == RaisesForStatus(ans) /\ ~IsHttp429(ans)
IsData(ans) == ans.status_code = 200 /\ ans.status = "ok"

\* the call has ended and the whole-call operator agrees with the steps
NewsCallEnded == news_call.made /\ news_call.done

\* the case of C7: the call ended, its first 2 attempts were answered as
\* rate-limited and its 3rd with data
C7_Case ==
    /\ NewsCallEnded
    /\ Len(news_call.answers) >= 3
    /\ IsRateLimited(news_call.answers[1])
    /\ IsRateLimited(news_call.answers[2])
    /\ IsData(news_call.answers[3])

\* C7 as stated: with a pool of 3 keys and the first 2 attempts of a
\* search_news call rate-limited, the 3rd attempt uses the pool's 3rd key and
\* the call returns the provider's data.
C7_ThirdKeyOfPool ==
    (C7_Case /\ Len(NEWS_API_KEYS) = 3) =>
        /\ news_call.outcome = "return"
        /\ news_call.data = news_call.answers[3].payload
        /\ Len(news_call.keys) = 3
        /\ news_call.keys[3] = NEWS_API_KEYS[3]

\* C7 amended: the 3rd attempt uses the key two places after the key the
\* pointer was at when the call started, in cyclic pool order (the pool's 3rd
\* key when the call started at the 1st key), and the call returns the data of
\* the 3rd answer.
C7_ThirdKeyFromStart ==
    C7_Case =>
        /\ news_call.outcome = "return"
        /\ news_call.data = news_call.answers[3].payload
        /\ Len(news_call.keys) = 3
        /\ news_call.keys[3] =
               NEWS_API_KEYS[((news_call.start + 2) % Len(NEWS_API_KEYS)) + 1]
        /\ (news_call.start = 0 => news_call.keys[3] = NEWS_API_KEYS[3])

C7_Witness ==
    /\ C7_Case
    /\ news_call.start # 0
    /\ news_call.outcome = "return"
    /\ Len(news_call.keys) = 3

\* C8 as stated: when every attempt of a search_news call is answered as
\* rate-limited (HTTP 429 or a rate-limit error body), the call fails after
\* exactly max_retries attempts with the "failed after max_retries attempts"
\* error.
C8_AllRateLimitedExhausts ==
    ( /\ NewsCallEnded
      /\ news_call.max_retries >= 1
      /\ \A i \in 1..Len(news_call.answers) : IsRateLimited(news_call.answers[i]) )
    =>
        /\ news_call.outcome = "raise"
        /\ news_call.error = "FailedAfterAttempts"
        /\ Len(news_call.keys) = news_call.max_retries

\* the case of C9: the call failed and made max_retries attempts
C9_Case ==
    /\ NewsCallEnded
    /\ news_call.max_retries >= 1
    /\ news_call.outcome = "raise"
    /\ Len(news_call.keys) = news_call.max_retries

\* C9 as stated: a search_news call that fails after max_retries attempts
\* raises the all-attempts-exhausted error, whatever the failures were.
C9_ExhaustedWhateverFailures ==
    C9_Case => news_call.error = "FailedAfterAttempts"

\* C9 amended: a call that fails after max_retries attempts raises the
\* all-attempts-exhausted error when its last attempt was answered HTTP 429;
\* when the last attempt got another HTTP error or no response, the call
\* raises that attempt's own error.
C9_ExhaustedAfterLast429 ==
    C9_Case =>
        LET last == news_call.answers[news_call.max_retries]
        IN  /\ IsHttp429(last) => news_call.error = "FailedAfterAttempts"
            /\ IsOtherHttpError(last) => news_call.error = "HTTPError"
            /\ last = Unreachable => news_call.error = "ConnectionError"

C9_Witness ==
    /\ C9_Case
    /\ news_call.max_retries = 3
    /\ news_call.answers[1] = Unreachable
    /\ IsHttp429(news_call.answers[2])
    /\ IsHttp429(news_call.answers[3])
    /\ news_call.error = "FailedAfterAttempts"

\* C10: an attempt that gets an HTTP error whose status is not 429 ends the
\* call at that attempt with that error; no further request is issued.
C10_HttpErrorFailsAtOnce ==
    \A i \in 1..Len(news_call.answers) :
        IsOtherHttpError(news_call.answers[i]) =>
            /\ news_call.done
            /\ news_call.outcome = "raise"
            /\ news_call.error = "HTTPError"
            /\ Len(news_call.keys) = i
            /\ Len(news_call.answers) = i

C10_Witness ==
    /\ NewsCallEnded
    /\ news_call.max_retries = 4
    /\ Len(news_call.answers) = 2
    /\ IsOtherHttpError(news_call.answers[2])
    /\ news_call.error = "HTTPError"

(***************************************************************************)
(* server.py: the handler of /search. A step runs from one await to the    *)
(* next.                                                                   *)
(***************************************************************************)
\* an exception leaves the handler: the framework answers 500
Raise500(r, error) ==
    [req[r] EXCEPT !.pc = "done", !.status = 500, !.body = [NoBody EXCEPT !.error = error]]

\* the post /search puts in the results for a social post and its label
ClassifiedPost(post, bias) ==
    LET sent == AnalyzeSentiment(post.title, post.contents)
    IN  [source |-> post.source,
         title |-> post.title,
         url |-> post.url,
         contents |-> post.contents,
         bias |-> bias,
         sentiment |-> sent.category,
         sentiment_score |-> sent.score,
         author |-> post.author,
         date |-> post.date]

\* zip(posts, biases) of the loops at lines 162-170 and 183-191, with the
\* label classify_bias gives for each answer of the text-generation call
ClassifiedPosts(posts, answers) ==
    [j \in 1..Len(posts) |-> ClassifiedPost(posts[j], ClassifyBias(answers[j]))]

\* a classify_bias call issued for a post, and the call once it has returned
BiasTask(post) == [url |-> post.url, done |-> FALSE, label |-> "none"]
BiasTaskEnded(task, answer) == [task EXCEPT !.done = TRUE, !.label = ClassifyBias(answer)]

\* the calls of a list comprehension over posts, all ended in the order issued
BiasTasksEnded(posts, answers) ==
    [j \in 1..Len(posts) |-> BiasTaskEnded(BiasTask(posts[j]), answers[j])]

\* the (url, record) pairs appended to articles_to_store for a list of records
ToStore(records) == [j \in 1..Len(records) |-> <<records[j].url, records[j]>>]

\* GET /search arrives: create_session, then the test of bluesky_logged_in
SearchBeginUpTo(r, n) ==
    /\ req[r].pc = "idle"
    /\ Cardinality(sessions) < n
    /\ sessions' = sessions \cup {FreshUuid(sessions)}
    /\ req' = [req EXCEPT ![r] =
                 [Idle EXCEPT !.kind = "search",
                              !.session_id = UuidStr(FreshUuid(sessions)),
                              !.pc = IF bluesky_logged_in THEN "adapters" ELSE "login"]]
    /\ UNCHANGED <<articles, store_log, newsVars, sideVars, bluesky_logged_in,
                   scraped_content_cache, returned, scraper_log>>

SearchBegin(r) == SearchBeginUpTo(r, MaxSessions)

\* bluesky_client.login returns or raises
SearchLogin(r) ==
    /\ req[r].pc = "login"
    /\ \E ok \in BOOLEAN :
         IF ok
         THEN /\ bluesky_logged_in' = TRUE
              /\ logins' = logins + 1
              /\ req' = [req EXCEPT ![r].pc = "adapters"]
         ELSE /\ req' = [req EXCEPT ![r] = Raise500(r, "login")]
              /\ UNCHANGED <<bluesky_logged_in, logins>>
    /\ UNCHANGED <<storeVars, newsVars, probe, fetchers, cli, scraped_content_cache,
                   returned, scraper_log>>

\* news_task ends: search_news ran in a worker thread with the default
\* max_retries = 3; if it raised, gather raises at once
NewsTaskEnds(r) ==
    /\ req[r].pc = "adapters"
    /\ ~req[r].news.done
    /\ \E answers \in [1..3 -> SearchAnswers], results \in SearchLists :
         LET call == SearchNews(current_key_index, 3, answers)
         IN  /\ current_key_index' = call.index
             /\ req' = [req EXCEPT ![r] =
                          IF call.outcome = "return"
                          THEN [req[r] EXCEPT !.news = [done |-> TRUE, value |-> results],
                                              !.completed = Append(@, "news")]
                          ELSE Raise500(r, call.error)]
    /\ UNCHANGED <<news_call, sideVars, storeVars, bluesky_logged_in, scraped_content_cache, returned, scraper_log>>

\* reddit_task ends
RedditTaskEnds(r) ==
    /\ req[r].pc = "adapters"
    /\ ~req[r].reddit.done
    /\ \E outcome \in AdapterOutcomes :
         req' = [req EXCEPT ![r].reddit =
                    [done |-> TRUE, value |-> SearchSocial("Reddit", outcome)],
                            ![r].completed = Append(@, "reddit")]
    /\ UNCHANGED <<storeVars, newsVars, sideVars, bluesky_logged_in, scraped_content_cache, returned, scraper_log>>

\* bluesky_task ends
BlueskyTaskEnds(r) ==
    /\ req[r].pc = "adapters"
    /\ ~req[r].bluesky.done
    /\ \E outcome \in AdapterOutcomes :
         req' = [req EXCEPT ![r].bluesky =
                    [done |-> TRUE, value |-> SearchSocial("Bluesky", outcome)],
                            ![r].completed = Append(@, "bluesky")]
    /\ UNCHANGED <<storeVars, newsVars, sideVars, bluesky_logged_in, scraped_content_cache, returned, scraper_log>>

\* the same were the handler to go on as soon as news_task has ended
SearchFilter_Early(r) ==
    /\ req[r].pc = "adapters"
    /\ req[r].news.done
    /\ LET loop == FilterNews(req[r].news.value)
       IN  req' = [req EXCEPT ![r] =
                     IF loop.raised # "none"
                     THEN Raise500(r, loop.raised)
                     ELSE [req[r] EXCEPT !.pc = "classify_reddit",
                                         !.outputs = loop.outputs,
                                         !.articles_to_store = ToStore(loop.outputs)]]
    /\ UNCHANGED <<storeVars, newsVars, sideVars, bluesky_logged_in, scraped_content_cache, returned, scraper_log>>

\* gather returns: the news loop, then the classification calls of the
\* Reddit posts are started
SearchFilter(r) ==
    /\ req[r].pc = "adapters"
    /\ req[r].news.done /\ req[r].reddit.done /\ req[r].bluesky.done
    /\ LET loop == FilterNews(req[r].news.value)
       IN  req' = [req EXCEPT ![r] =
                     IF loop.raised # "none"
                     THEN Raise500(r, loop.raised)
                     ELSE [req[r] EXCEPT !.pc = "classify_reddit",
                                         !.outputs = loop.outputs,
                                         !.articles_to_store = ToStore(loop.outputs)]]
    /\ UNCHANGED <<storeVars, newsVars, sideVars, bluesky_logged_in, scraped_content_cache, returned, scraper_log>>

\* the classification calls of the Reddit posts have ended; the posts are
\* added and the calls of the Bluesky posts started
SearchRedditClassified(r) ==
    /\ req[r].pc = "classify_reddit"
    /\ \E answers \in [1..Len(req[r].reddit.value) -> LlmAnswers] :
         LET posts == ClassifiedPosts(req[r].reddit.value, answers)
         IN  req' = [req EXCEPT ![r].pc = "classify_bluesky",
                                ![r].outputs = @ \o posts,
                                ![r].articles_to_store = @ \o ToStore(posts),
                                ![r].bias_order =
                                    @ \o [j \in 1..Len(posts) |-> Len(req[r].bias_tasks) + j],
                                ![r].bias_tasks =
                                    @ \o BiasTasksEnded(req[r].reddit.value, answers)]
    /\ UNCHANGED <<storeVars, newsVars, sideVars, bluesky_logged_in, scraped_content_cache, returned, scraper_log>>

\* the classification calls of the Bluesky posts have ended; the posts are
\* added and store_articles_batch is called
SearchBlueskyClassified(r) ==
    /\ req[r].pc = "classify_bluesky"
    /\ \E answers \in [1..Len(req[r].bluesky.value) -> LlmAnswers] :
         LET posts == ClassifiedPosts(req[r].bluesky.value, answers)
         IN  req' = [req EXCEPT ![r].pc = "store",
                                ![r].outputs = @ \o posts,
                                ![r].articles_to_store = @ \o ToStore(posts),
                                ![r].bias_order =
                                    @ \o [j \in 1..Len(posts) |-> Len(req[r].bias_tasks) + j],
                                ![r].bias_tasks =
                                    @ \o BiasTasksEnded(req[r].bluesky.value, answers)]
    /\ UNCHANGED <<storeVars, newsVars, sideVars, bluesky_logged_in, scraped_content_cache, returned, scraper_log>>

\* the store call of /search were executemany to keep the rows written before
\* the server failed
StoreWithServer_Partial(sess, tbl, session_id, batch, db_error) ==
    IF db_error # "none"
    THEN [raised |-> db_error,
          articles |-> StoreArticlesBatch(sess, tbl, session_id,
                          IF batch = <<>> THEN <<>> ELSE <<batch[1]>>).articles]
    ELSE StoreArticlesBatch(sess, tbl, session_id, batch)

\* the store call of /search with a database server that may fail while the
\* batch runs: executemany runs in one transaction, a failure undoes it
StoreWithServer(sess, tbl, session_id, batch, db_error) ==
    IF db_error # "none"
    THEN [raised |-> db_error, articles |-> tbl]
    ELSE StoreArticlesBatch(sess, tbl, session_id, batch)

\* store_articles_batch runs in the database
SearchStore(r) ==
    /\ req[r].pc = "store"
    /\ \E db_error \in {"none", "PostgresError"} :
         LET res == StoreWithServer(sessions, articles, req[r].session_id,
                                    req[r].articles_to_store, db_error)
         IN  /\ articles' = res.articles
             /\ req' = [req EXCEPT ![r] =
                          IF res.raised # "none"
                          THEN Raise500(r, res.raised)
                          ELSE [req[r] EXCEPT !.pc = "respond", !.stored = TRUE]]
    /\ UNCHANGED <<sessions, store_log, newsVars, sideVars, bluesky_logged_in,
                   scraped_content_cache, returned, scraper_log>>

\* the items of the adapter that completed k-th, for a merge in the order of
\* completion
RECURSIVE ByCompletion(_, _)
ByCompletion(request, k) ==
    IF k > Len(request.completed) THEN <<>>
    ELSE SelectSeq(request.outputs,
                   LAMBDA item :
                       CASE request.completed[k] = "reddit" -> item.source = "Reddit"
                         [] request.completed[k] = "bluesky" -> item.source = "Bluesky"
                         [] OTHER -> item.source \notin {"Reddit", "Bluesky"})
         \o ByCompletion(request, k + 1)

\* results in the order in which the adapters completed
ResponseResults_AsCompleted(request) == ByCompletion(request, 1)

\* "results": outputs
ResponseResults(request) == request.outputs

\* return {"session_id": session_id, "results": outputs}
SearchRespond(r) ==
    /\ req[r].pc = "respond"
    /\ req' = [req EXCEPT ![r].pc = "done",
                          ![r].status = 200,
                          ![r].body = [NoBody EXCEPT !.session_id = req[r].session_id,
                                                     !.results = ResponseResults(req[r])]]
    /\ returned' = returned \cup
          { <<UuidOf(req[r].session_id), req[r].outputs[j].url>> :
                j \in 1..Len(req[r].outputs) }
    /\ UNCHANGED <<storeVars, newsVars, sideVars, bluesky_logged_in, scraped_content_cache,
                   scraper_log>>

\* the client has the response; the slot is free again
Finish(r) ==
    /\ req[r].pc = "done"
    /\ req' = [req EXCEPT ![r] = Idle]
    /\ UNCHANGED <<storeVars, newsVars, sideVars, bluesky_logged_in, scraped_content_cache, returned, scraper_log>>

Search(r) ==
    \/ SearchBegin(r) \/ SearchLogin(r)
    \/ NewsTaskEnds(r) \/ RedditTaskEnds(r) \/ BlueskyTaskEnds(r)
    \/ SearchFilter(r) \/ SearchRedditClassified(r) \/ SearchBlueskyClassified(r)
    \/ SearchStore(r) \/ SearchRespond(r)

(***************************************************************************)
(* server.py: the handlers of /summary and /insights.                      *)
(***************************************************************************)
\* the list of sources both handlers test `source in [...]` against
NewsSources ==
    {"CNN", "CBS News", "NBC News", "ABC News", "Fox News", "Breitbart", "NY Post", "OANN"}

\* text[:n]
RECURSIVE TruncateRuns(_, _)
TruncateRuns(runs, n) ==
    IF runs = <<>> \/ n <= 0 THEN <<>>
    ELSE IF runs[1].n >= n THEN <<Run(runs[1].k, n)>>
    ELSE <<runs[1]>> \o TruncateRuns(Tail(runs), n - runs[1].n)

Truncate(text, n) == Text(TruncateRuns(text.runs, n))

\* raise HTTPException(status_code=404, detail=...)
NotFound(request, detail) ==
    [request EXCEPT !.pc = "done", !.status = 404, !.body = [NoBody EXCEPT !.error = detail]]

\* an exception leaves a handler that has just been entered
Failed(request, error) ==
    [request EXCEPT !.pc = "done", !.status = 500, !.body = [NoBody EXCEPT !.error = error]]

\* the except clause around generate_summary / generate_insights, were the
\* exception to leave the handler
GenerationFailed_Propagates(request, message) ==
    [request EXCEPT !.pc = "done", !.status = 500, !.generation = "failed",
                    !.body = [NoBody EXCEPT !.error = message]]

\* except Exception: return {"error": f"Failed to generate ...: {str(e)}"}
GenerationFailed(request, message) ==
    [request EXCEPT !.pc = "done", !.status = 200, !.generation = "failed",
                    !.body = [NoBody EXCEPT !.error = message]]

\* the cache after the scraper raised, were the stored contents cached in
\* place of the text
CacheAfterRaise_Fallback(cache, url, contents) ==
    [u \in DOMAIN cache \cup {url} |-> IF u = url THEN contents ELSE cache[u]]

\* the cache after the scraper raised: the except clause does not write it
CacheAfterRaise(cache, url, contents) == cache

\* the assignment, were the cache to hold the latest text only
CachePut_Evict(cache, url, full_content) ==
    [u \in {url} |-> full_content]

\* the assignment, were it to write the text under a second key as well
CachePut_SecondKey(cache, url, full_content) ==
    [u \in DOMAIN cache \cup {url, NoUrl} |->
        IF u \in {url, NoUrl} THEN full_content ELSE cache[u]]

\* scraped_content_cache[url] = full_content
CachePut(cache, url, full_content) ==
    [u \in DOMAIN cache \cup {url} |-> IF u = url THEN full_content ELSE cache[u]]

\* lines 216-250 and 297-326: where the text of a stored article comes from:
\* the cache, a scraper to be awaited ("scrape"), or the stored contents
ContentSource_NoCache(article, url, cache) ==
    IF article.source \in NewsSources /\ FindOutlet(url) # 0
    THEN "scrape" ELSE "stored"

\* the same without the test of the source
ContentSource_AnySource(article, url, cache) ==
    IF url \in DOMAIN cache THEN "cache"
    ELSE IF FindOutlet(url) # 0 THEN "scrape" ELSE "stored"

ContentSource(article, url, cache) ==
    IF article.source \in NewsSources
    THEN IF url \in DOMAIN cache THEN "cache"
         ELSE IF FindOutlet(url) # 0 THEN "scrape" ELSE "stored"
    ELSE "stored"

\* GET /summary arrives: session_exists, get_article, the cache test
SummaryBegin(r) ==
    /\ req[r].pc = "idle"
    /\ \E url \in ClientUrls, session_id \in SessionStrings :
         LET request == [Idle EXCEPT !.kind = "summary", !.url = url,
                                     !.session_id = session_id]
             found   == SessionExists(sessions, session_id)
             got     == GetArticle(articles, session_id, url)
             from    == ContentSource(got.value, url, scraped_content_cache)
         IN  req' = [req EXCEPT ![r] =
                IF found.raised # "none" THEN Failed(request, found.raised)
                ELSE IF ~found.value THEN NotFound(request, "Session not found")
                ELSE IF got.value = None THEN NotFound(request, "URL not found")
                ELSE [request EXCEPT
                        !.article = got.value,
                        !.content = IF from = "cache" THEN scraped_content_cache[url]
                                    ELSE got.value.contents,
                        !.used = IF from = "scrape" THEN <<>>
                                 ELSE <<Used(url, got.value.source, from,
                                             IF from = "cache"
                                             THEN scraped_content_cache[url]
                                             ELSE got.value.contents)>>,
                        !.pc = IF from = "scrape" THEN "scrape" ELSE "generate"]]
    /\ UNCHANGED <<storeVars, newsVars, sideVars, bluesky_logged_in, scraped_content_cache, returned, scraper_log>>

\* summary after its scraper raised, with the exception leaving the handler
ScraperRaised_Propagates(request) ==
    Failed([request EXCEPT !.used = <<Used(request.url, request.article.source, "raised",
                                           request.article.contents)>>],
           "ScraperError")

\* summary after its scraper raised: except Exception, lines 247-250
ScraperRaised(request) ==
    [request EXCEPT !.content = request.article.contents,
                    !.used = <<Used(request.url, request.article.source, "raised",
                                    request.article.contents)>>,
                    !.pc = "generate"]

\* the scraper returns the full text or raises
SummaryScraped(r) ==
    /\ req[r].pc = "scrape" /\ req[r].kind = "summary"
    /\ LET cached == req[r].url \in DOMAIN scraped_content_cache
       IN  \/ \E full_content \in ScrapedTexts :
                /\ scraped_content_cache' =
                      CachePut(scraped_content_cache, req[r].url, full_content)
                /\ req' = [req EXCEPT ![r].content = full_content,
                                      ![r].used = <<Used(req[r].url, req[r].article.source,
                                                         "scraper", full_content)>>,
                                      ![r].pc = "generate"]
                /\ scraper_log' =
                      [ScraperCalled(scraper_log, req[r].url,
                                     req[r].article.source, cached, TRUE)
                          EXCEPT !.by = @ \cup {<<req[r].url, UuidOf(req[r].session_id)>>}]
           \/ /\ req' = [req EXCEPT ![r] = ScraperRaised(req[r])]
              /\ scraper_log' = ScraperCalled(scraper_log, req[r].url,
                                              req[r].article.source, cached, FALSE)
              /\ scraped_content_cache' =
                    CacheAfterRaise(scraped_content_cache, req[r].url,
                                    req[r].article.contents)
    /\ UNCHANGED <<storeVars, newsVars, sideVars, bluesky_logged_in, returned>>

\* generate_summary returns or raises
SummaryGenerated(r) ==
    /\ req[r].pc = "generate" /\ req[r].kind = "summary"
    /\ \E ok \in BOOLEAN :
         req' = [req EXCEPT ![r] =
                   IF ok
                   THEN [req[r] EXCEPT
                           !.pc = "done", !.status = 200, !.generation = "ok",
                           !.body = [NoBody EXCEPT !.url = req[r].url,
                                                   !.title = req[r].article.title,
                                                   !.source = req[r].article.source,
                                                   !.text = Truncate(req[r].content, 3000)]]
                   ELSE GenerationFailed(req[r], "Failed to generate summary")]
    /\ UNCHANGED <<storeVars, newsVars, sideVars, bluesky_logged_in, scraped_content_cache, returned, scraper_log>>

Summary(r) == SummaryBegin(r) \/ SummaryScraped(r) \/ SummaryGenerated(r)

\* article_data of the loop of insights, and the list it is appended to
ArticleData(article, content) ==
    [title |-> article.title, source |-> article.source,
     content |-> Truncate(content, 2000)]

\* the end of one iteration of the loop: article_data is appended by the
\* item's bias and the next item, if any, is looked up
Appended(request, content, from) ==
    LET bias == request.items[request.i].bias
        data == ArticleData(request.article, content)
    IN  [request EXCEPT
            !.used = Append(@, Used(request.url, request.article.source, from, content)),
            !.left_articles = IF bias = "left" THEN Append(@, data) ELSE @,
            !.right_articles = IF bias = "right" THEN Append(@, data) ELSE @,
            !.i = @ + 1,
            !.pc = IF request.i < Len(request.items) THEN "item" ELSE "generate"]

\* POST /insights arrives: session_exists
InsightsBegin(r) ==
    /\ req[r].pc = "idle"
    /\ \E session_id \in SessionStrings, items \in ClientItems :
         LET request == [Idle EXCEPT !.kind = "insights", !.items = items,
                                     !.session_id = session_id]
             found   == SessionExists(sessions, session_id)
         IN  req' = [req EXCEPT ![r] =
                IF found.raised # "none" THEN Failed(request, found.raised)
                ELSE IF ~found.value THEN NotFound(request, "Session not found")
                ELSE [request EXCEPT !.pc = IF items = <<>> THEN "generate" ELSE "item"]]
    /\ UNCHANGED <<storeVars, newsVars, sideVars, bluesky_logged_in, scraped_content_cache, returned, scraper_log>>

\* one iteration of the loop, up to its await of the scraper if it has one
InsightsItem(r) ==
    /\ req[r].pc = "item" /\ req[r].kind = "insights"
    /\ LET url  == req[r].items[req[r].i].url
           got  == GetArticle(articles, req[r].session_id, url)
           from == ContentSource(got.value, url, scraped_content_cache)
           found == [req[r] EXCEPT !.article = got.value, !.url = url]
       IN  req' = [req EXCEPT ![r] =
              IF got.value = None
              THEN \* continue
                   [req[r] EXCEPT !.i = @ + 1,
                                  !.pc = IF req[r].i < Len(req[r].items)
                                         THEN "item" ELSE "generate"]
              ELSE IF from = "scrape"
              THEN [found EXCEPT !.pc = "scrape", !.content = got.value.contents]
              ELSE Appended(found,
                            IF from = "cache" THEN scraped_content_cache[url]
                            ELSE got.value.contents,
                            from)]
    /\ UNCHANGED <<storeVars, newsVars, sideVars, bluesky_logged_in, scraped_content_cache, returned, scraper_log>>

\* the scraper returns the full text or raises
InsightsScraped(r) ==
    /\ req[r].pc = "scrape" /\ req[r].kind = "insights"
    /\ LET cached == req[r].url \in DOMAIN scraped_content_cache
       IN  \/ \E full_content \in ScrapedTexts :
                /\ scraped_content_cache' =
                      CachePut(scraped_content_cache, req[r].url, full_content)
                /\ req' = [req EXCEPT ![r] = Appended(req[r], full_content, "scraper")]
                /\ scraper_log' =
                      [ScraperCalled(scraper_log, req[r].url,
                                     req[r].article.source, cached, TRUE)
                          EXCEPT !.by = @ \cup {<<req[r].url, UuidOf(req[r].session_id)>>}]
           \/ /\ req' = [req EXCEPT ![r] = Appended(req[r], req[r].content, "raised")]
              /\ scraper_log' = ScraperCalled(scraper_log, req[r].url,
                                              req[r].article.source, cached, FALSE)
              /\ scraped_content_cache' =
                    CacheAfterRaise(scraped_content_cache, req[r].url,
                                    req[r].article.contents)
    /\ UNCHANGED <<storeVars, newsVars, sideVars, bluesky_logged_in, returned>>

\* generate_insights returns or raises
InsightsGenerated(r) ==
    /\ req[r].pc = "generate" /\ req[r].kind = "insights"
    /\ \E ok \in BOOLEAN :
         req' = [req EXCEPT ![r] =
                   IF ok
                   THEN [req[r] EXCEPT
                           !.pc = "done", !.status = 200, !.generation = "ok",
                           !.body = [NoBody EXCEPT !.left = req[r].left_articles,
                                                   !.right = req[r].right_articles]]
                   ELSE GenerationFailed(req[r], "Failed to generate insights")]
    /\ UNCHANGED <<storeVars, newsVars, sideVars, bluesky_logged_in, scraped_content_cache, returned, scraper_log>>

Insights(r) ==
    InsightsBegin(r) \/ InsightsItem(r) \/ InsightsScraped(r) \/ InsightsGenerated(r)

\* requests served one after another
Next == Search("a") \/ Summary("a") \/ Insights("a") \/ Finish("a")

Spec == Init /\ [][Next]_vars

(***************************************************************************)
(* Claims about the handlers.                                              *)
(***************************************************************************)
\* the response of a handler of the given kind is ready in slot r
Responded(r, kind) == req[r].pc = "done" /\ req[r].kind = kind

\* the number of items of a list that satisfy a test
CountOf(items, Test(_)) == Cardinality({ j \in 1..Len(items) : Test(items[j]) })

IsLeft(item) == item.bias = "left"
IsRight(item) == item.bias = "right"
IsNews(item) == item.source \in NewsSources
IsLeftNews(item) == IsNews(item) /\ IsLeft(item)
IsRightNews(item) == IsNews(item) /\ IsRight(item)

\* C1 as stated: in every /search response, counting news, Reddit and
\* Bluesky items together, at most MAX_LEFT_ARTICLES items have bias "left",
\* at most MAX_RIGHT_ARTICLES have bias "right" and there are at most
\* MAX_TOTAL_ARTICLES items.
C1_CapsOnAllItems ==
    \A r \in Slots :
        (Responded(r, "search") /\ req[r].status = 200) =>
            /\ CountOf(req[r].body.results, IsLeft) <= MAX_LEFT_ARTICLES
            /\ CountOf(req[r].body.results, IsRight) <= MAX_RIGHT_ARTICLES
            /\ Len(req[r].body.results) <= MAX_TOTAL_ARTICLES

\* C1 amended: in every /search response, counting the news items only, at
\* most MAX_LEFT_ARTICLES have bias "left", at most MAX_RIGHT_ARTICLES have
\* bias "right" and there are at most MAX_TOTAL_ARTICLES of them.
C1_CapsOnNewsItems ==
    \A r \in Slots :
        (Responded(r, "search") /\ req[r].status = 200) =>
            /\ CountOf(req[r].body.results, IsLeftNews) <= MAX_LEFT_ARTICLES
            /\ CountOf(req[r].body.results, IsRightNews) <= MAX_RIGHT_ARTICLES
            /\ CountOf(req[r].body.results, IsNews) <= MAX_TOTAL_ARTICLES

\* a response to a provider list of more left articles than the cap: the cap
\* is reached by the news items and passed with a post labelled left
C1_Witness ==
    \E r \in Slots :
        /\ Responded(r, "search") /\ req[r].status = 200
        /\ Len(req[r].news.value) > MAX_LEFT_ARTICLES
        /\ CountOf(req[r].body.results, IsLeftNews) = MAX_LEFT_ARTICLES
        /\ CountOf(req[r].body.results, IsLeft) > MAX_LEFT_ARTICLES

\* the errors search_news ends with
NewsErrors == {"FailedAfterAttempts", "HTTPError", "ConnectionError", "APIError"}

\* C2 as stated: the failure of one source adapter does not fail /search: no
\* /search request ends with the error of an adapter.
C2_AdapterFailureIsolated ==
    \A r \in Slots :
        Responded(r, "search") =>
            ~(req[r].status # 200 /\ req[r].body.error \in NewsErrors)

\* C3: for every (S, url) of a /search response sent, session S exists and
\* get_article(S, url) finds a record; a /summary request for such a pair is
\* never answered not-found.
C3_ReturnedItemsRetrievable ==
    /\ \A pair \in returned :
          /\ SessionExists(sessions, UuidStr(pair[1])).value
          /\ GetArticle(articles, UuidStr(pair[1]), pair[2]).value # None
    /\ \A r \in Slots :
          (Responded(r, "summary") /\ ~UuidRaises(req[r].session_id)
             /\ <<UuidOf(req[r].session_id), req[r].url>> \in returned)
          => req[r].status # 404

\* a /summary answered with a summary for a post of a /search response that
\* also had a news item
C3_Witness ==
    \E r \in Slots :
        /\ Responded(r, "summary") /\ req[r].status = 200
        /\ req[r].article.source = "Reddit"
        /\ <<UuidOf(req[r].session_id), req[r].url>> \in returned
        /\ Cardinality(returned) > 1

\* is there a session with this id, and a record for the URL in it
SessionKnown(session_id) == ~UuidRaises(session_id) /\ UuidOf(session_id) \in sessions
UrlStored(session_id, url) ==
    /\ SessionKnown(session_id)
    /\ MatchingRows(articles, UuidOf(session_id), url) # {}

\* C5 as stated: /summary for a pair whose session does not exist or whose
\* URL is not stored in the session answers 404, whatever string the
\* session id is.
C5_SummaryUnknownIs404 ==
    \A r \in Slots :
        (Responded(r, "summary") /\ ~UrlStored(req[r].session_id, req[r].url))
        => req[r].status = 404

\* C6 as stated: /insights for a session that does not exist, or with a
\* listed URL that is not stored in the session, answers not-found.
C6_InsightsUnknownIs404 ==
    \A r \in Slots :
        ( /\ Responded(r, "insights")
          /\ \/ ~SessionKnown(req[r].session_id)
             \/ \E j \in 1..Len(req[r].items) :
                    ~UrlStored(req[r].session_id, req[r].items[j].url) )
        => req[r].status = 404

(***************************************************************************)
(* Further claims about search_news.                                       *)
(***************************************************************************)
\* an answer that is a failure, but neither rate limiting nor an HTTP status
\* error: no response at all, or an error body with another code
IsOtherFailure(ans) ==
    \/ ans = Unreachable
    \/ ans.status_code = 200 /\ ans.status = "error" /\ ans.code # Code_rateLimited

\* C11 as stated: an attempt of search_news that fails for a reason that is
\* neither rate limiting nor an HTTP status error ends the call at that
\* attempt with an error; no further key is tried.
C11_OtherFailureSurfacedAtOnce ==
    \A i \in 1..Len(news_call.answers) :
        IsOtherFailure(news_call.answers[i]) =>
            /\ news_call.done
            /\ news_call.outcome = "raise"
            /\ Len(news_call.keys) = i

(***************************************************************************)
(* Claims about the news loop of /search.                                  *)
(***************************************************************************)
\* the news loop of the request in slot r has just run without an error
NewsLoopRan(r) == req[r].kind = "search" /\ req[r].pc = "classify_reddit"

\* the outlet an article maps to, and whether the article passes the content
\* filter and its record can be built
OutletOf(article) == OUTLETS[FindOutlet(article.url)]
Passes(article) ==
    /\ FindOutlet(article.url) # 0
    /\ ~article.content.isnone
    /\ TextLen(StripHtmlTags(article.content).runs) >= MIN_CONTENT_LENGTH
    /\ ToEpochTime(article.publishedAt).raised = "none"

\* the items of one bias in a list of records, and the cap of a bias
CountBias(items, bias) == Cardinality({ j \in 1..Len(items) : items[j].bias = bias })
CapOf(bias) == IF bias = "left" THEN MAX_LEFT_ARTICLES ELSE MAX_RIGHT_ARTICLES

\* what the loop has admitted before it comes to position i, and after it
AdmittedBefore(results, i) == FilterNews(SubSeq(results, 1, i - 1)).outputs
AdmittedAfter(results, i) == FilterNews(SubSeq(results, 1, i)).outputs

\* C12: in the news loop, a candidate whose bias has as many admitted
\* articles as its cap is rejected; a candidate of a bias whose count is below
\* its cap, met while the total is below MAX_TOTAL_ARTICLES, is admitted, also
\* when the other bias is at its cap already.
C12_CapBoundary ==
    \A r \in Slots :
        NewsLoopRan(r) =>
            LET results == req[r].news.value
            IN  \A i \in 1..Len(results) :
                    Passes(results[i]) =>
                        LET before == AdmittedBefore(results, i)
                            bias   == OutletOf(results[i]).bias
                        IN  /\ CountBias(before, bias) = CapOf(bias)
                                => AdmittedAfter(results, i) = before
                            /\ ( /\ CountBias(before, bias) < CapOf(bias)
                                 /\ Len(before) < MAX_TOTAL_ARTICLES )
                                => /\ Len(AdmittedAfter(results, i)) = Len(before) + 1
                                   /\ AdmittedAfter(results, i)[Len(before) + 1].url
                                          = results[i].url
                                   /\ AdmittedAfter(results, i)[Len(before) + 1].bias = bias
                            /\ req[r].outputs = AdmittedAfter(results, Len(results))

\* the left cap is reached, the next left article is rejected and the right
\* article after it is admitted
C12_Witness ==
    \E r \in Slots :
        /\ NewsLoopRan(r)
        /\ Len(req[r].news.value) = MAX_LEFT_ARTICLES + 2
        /\ OutletOf(req[r].news.value[MAX_LEFT_ARTICLES + 1]).bias = "left"
        /\ Len(req[r].outputs) = MAX_LEFT_ARTICLES + 1
        /\ CountBias(req[r].outputs, "left") = MAX_LEFT_ARTICLES
        /\ req[r].outputs[MAX_LEFT_ARTICLES + 1].bias = "right"

\* the three adapter calls of the /search in slot r have returned their lists
AdaptersReturned(r) ==
    req[r].news.done /\ req[r].reddit.done /\ req[r].bluesky.done

\* C13 as stated: a failure on one item inside the aggregator never aborts
\* the /search request: a /search whose three adapters returned is answered
\* with success, and the posts of the social adapters are among its results.
C13_ItemFailureIsolated ==
    \A r \in Slots :
        (Responded(r, "search") /\ AdaptersReturned(r)) =>
            /\ req[r].status = 200
            /\ Len(req[r].body.results)
                   >= Len(req[r].reddit.value) + Len(req[r].bluesky.value)

\* a stored or returned text free of markup and of at least the minimum length
HasTag(text) == \E j \in 1..Len(text.runs) : text.runs[j].k = "tag"
LongEnough(item) ==
    /\ ~item.contents.isnone
    /\ ~HasTag(item.contents)
    /\ TextLen(item.contents.runs) >= MIN_CONTENT_LENGTH

\* C14: no news item of a /search response and no news record of the store
\* has stripped contents shorter than MIN_CONTENT_LENGTH, and an article of
\* an outlet whose stripped content has exactly MIN_CONTENT_LENGTH characters,
\* met while its bias is below its cap, is admitted with that content.
C14_MinContentLength ==
    /\ \A k \in 1..Len(articles) :
          IsNews(JsonLoads(articles[k].data)) => LongEnough(JsonLoads(articles[k].data))
    /\ \A r \in Slots :
          (Responded(r, "search") /\ req[r].status = 200) =>
              \A j \in 1..Len(req[r].body.results) :
                  IsNews(req[r].body.results[j]) => LongEnough(req[r].body.results[j])
    /\ \A r \in Slots :
          NewsLoopRan(r) =>
              LET results == req[r].news.value
              IN  \A i \in 1..Len(results) :
                    ( /\ Passes(results[i])
                      /\ TextLen(StripHtmlTags(results[i].content).runs) = MIN_CONTENT_LENGTH
                      /\ CountBias(AdmittedBefore(results, i), OutletOf(results[i]).bias)
                             < CapOf(OutletOf(results[i]).bias) )
                    => \E j \in 1..Len(req[r].outputs) :
                          /\ req[r].outputs[j].url = results[i].url
                          /\ TextLen(req[r].outputs[j].contents.runs) = MIN_CONTENT_LENGTH

\* a response to a list with an article one character short of the minimum
\* and one of exactly the minimum: the first is absent, the second present
C14_Witness ==
    \E r \in Slots :
        /\ Responded(r, "search") /\ req[r].status = 200
        /\ \E i \in 1..Len(req[r].news.value) :
              /\ req[r].news.value[i].content = BodyBelowThreshold
              /\ \A j \in 1..Len(req[r].body.results) :
                    req[r].body.results[j].url # req[r].news.value[i].url
        /\ \E j \in 1..Len(req[r].body.results) :
              /\ IsNews(req[r].body.results[j])
              /\ TextLen(req[r].body.results[j].contents.runs) = MIN_CONTENT_LENGTH
        /\ Len(articles) > 0

\* does the URL contain the domain of some configured outlet, and is the item
\* labelled with the source and bias of an outlet whose domain its URL contains
MatchesOutlet(url) == \E o \in 1..Len(OUTLETS) : DomainInUrl(OUTLETS[o].domain, url)
FromOutlet(item) ==
    \E o \in 1..Len(OUTLETS) :
        /\ DomainInUrl(OUTLETS[o].domain, item.url)
        /\ item.source = OUTLETS[o].source
        /\ item.bias = OUTLETS[o].bias

\* an article the loop can handle: of no outlet, or with content and a
\* timestamp that raise nothing
Harmless(article) ==
    \/ ~MatchesOutlet(article.url)
    \/ ~article.content.isnone /\ ToEpochTime(article.publishedAt).raised = "none"

\* C15: every news item of a /search response and of the store carries the
\* source and bias of a configured outlet whose domain its URL contains; an
\* article of the provider's list whose URL contains no configured domain is
\* neither returned nor stored, and raises no error (the response is 200
\* unless the database server fails in the store step).
C15_OnlyConfiguredOutlets ==
    /\ \A k \in 1..Len(articles) :
          IsNews(JsonLoads(articles[k].data)) => FromOutlet(JsonLoads(articles[k].data))
    /\ \A r \in Slots :
          (Responded(r, "search") /\ AdaptersReturned(r)) =>
              LET results == req[r].news.value
              IN  /\ (\A i \in 1..Len(results) : Harmless(results[i]))
                        => (req[r].status = 200 \/ req[r].body.error = "PostgresError")
                  /\ \A j \in 1..Len(req[r].body.results) :
                        IsNews(req[r].body.results[j]) => FromOutlet(req[r].body.results[j])
                  /\ \A i \in 1..Len(results) :
                        ~MatchesOutlet(results[i].url) =>
                            /\ \A j \in 1..Len(req[r].body.results) :
                                  req[r].body.results[j].url # results[i].url
                            /\ MatchingRows(articles, UuidOf(req[r].session_id),
                                            results[i].url) = {}

\* a response to a list with an article of an unconfigured site between
\* articles of outlets: the articles of the outlets are returned
C15_Witness ==
    \E r \in Slots :
        /\ Responded(r, "search") /\ req[r].status = 200
        /\ \E i \in 1..Len(req[r].news.value) : ~MatchesOutlet(req[r].news.value[i].url)
        /\ CountOf(req[r].body.results, IsNews) = 2

(***************************************************************************)
(* Claims about the text /summary and /insights work from.                 *)
(***************************************************************************)
\* the contents stored at search time for the article of a request
StoredContents(session_id, url) == GetArticle(articles, session_id, url).value.contents

\* the /summary request in slot r is answered, and its scraper had raised
SummaryAfterScraperRaised(r) ==
    /\ Responded(r, "summary")
    /\ Len(req[r].used) = 1
    /\ req[r].used[1].from = "raised"

\* C16 as stated: when the scraper fails during /summary for a stored news
\* URL, the response is a non-error summary made from the contents stored at
\* search time.
C16_ScraperFailureStillSummary ==
    \A r \in Slots :
        SummaryAfterScraperRaised(r) =>
            /\ req[r].status = 200
            /\ req[r].body.error = ""
            /\ req[r].body.text =
                   Truncate(StoredContents(req[r].session_id, req[r].url), 3000)

\* C16 amended: when the scraper fails during /summary for a stored news
\* URL, the request is not failed by it: the text handed to the summary
\* generation is the contents stored at search time and the answer has
\* status 200; it is the summary of those contents when the generation
\* succeeds, and the generation's error body when the generation fails too.
C16_ScraperFailureFallsBack ==
    \A r \in Slots :
        SummaryAfterScraperRaised(r) =>
            /\ req[r].status = 200
            /\ req[r].content = StoredContents(req[r].session_id, req[r].url)
            /\ req[r].body.error \in {"", "Failed to generate summary"}
            /\ req[r].body.error = "" =>
                  /\ req[r].body.text =
                         Truncate(StoredContents(req[r].session_id, req[r].url), 3000)
                  /\ req[r].body.url = req[r].url
                  /\ req[r].body.source \in NewsSources

C16_Witness ==
    \E r \in Slots :
        /\ SummaryAfterScraperRaised(r)
        /\ req[r].body.error = ""
        /\ req[r].body.source = "CNN"
        /\ req[r].url \notin DOMAIN scraped_content_cache

\* C17: for requests served one after another, a scraper is never called for
\* a URL that is in the cache, and the cached text is used instead; after a
\* miss the text the scraper returned is in the cache under the URL and is
\* the text used; no URL has had more than one scraper call that returned.
C17_ScrapeOncePerUrl ==
    /\ \A c \in scraper_log.calls : ~c.cached
    /\ DOMAIN scraper_log.returns = DOMAIN scraped_content_cache
    /\ \A u \in DOMAIN scraper_log.returns : scraper_log.returns[u] <= 1
    /\ \A r \in Slots : \A j \in 1..Len(req[r].used) :
          LET e == req[r].used[j]
          IN  /\ e.from \in {"cache", "scraper"} =>
                    /\ e.url \in DOMAIN scraped_content_cache
                    /\ e.content = scraped_content_cache[e.url]
              /\ (e.source \in NewsSources /\ e.url \in DOMAIN scraped_content_cache)
                    => e.from \in {"cache", "scraper"}
    /\ \A r \in Slots :
          (Responded(r, "summary") /\ req[r].status = 200 /\ req[r].body.error = "") =>
              req[r].body.text = Truncate(req[r].used[1].content, 3000)

\* a /summary answered from the cache, which an earlier request filled
C17_Witness ==
    \E r \in Slots :
        /\ Responded(r, "summary") /\ req[r].status = 200 /\ req[r].body.error = ""
        /\ req[r].used[1].from = "cache"
        /\ scraper_log.returns[req[r].url] = 1
        /\ req[r].body.text # Truncate(StoredContents(req[r].session_id, req[r].url), 3000)

\* the posts of the social adapters
SocialSources == {"Reddit", "Bluesky"}

\* C18: a /summary or /insights request for a stored post of Reddit or
\* Bluesky calls no scraper, takes nothing from the cache and puts nothing in
\* it: the text it uses is the contents stored at search time.
C18_SocialPostsBypassCache ==
    /\ \A c \in scraper_log.calls : c.source \notin SocialSources
    /\ \A r \in Slots : \A j \in 1..Len(req[r].used) :
          LET e == req[r].used[j]
          IN  e.source \in SocialSources =>
                  /\ e.from = "stored"
                  /\ e.content = StoredContents(req[r].session_id, e.url)
                  /\ e.url \notin DOMAIN scraped_content_cache
    /\ \A r \in Slots :
          (req[r].kind = "summary" /\ req[r].article # None
             /\ req[r].article.source \in SocialSources)
          => /\ req[r].pc # "scrape"
             /\ req[r].content = StoredContents(req[r].session_id, req[r].url)

\* a /summary of a Reddit post whose URL contains the domain of an outlet
C18_Witness ==
    \E r \in Slots :
        /\ Responded(r, "summary") /\ req[r].status = 200 /\ req[r].body.error = ""
        /\ req[r].body.source = "Reddit"
        /\ MatchesOutlet(req[r].url)
        /\ req[r].used[1].from = "stored"
        /\ scraped_content_cache # <<>>

(***************************************************************************)
(* Claims about the merge of /search and about the store.                  *)
(***************************************************************************)
\* the URLs of a list of records, in order
UrlsOf(items) == [j \in 1..Len(items) |-> items[j].url]

\* is seq a subsequence of the list `of`, in order
RECURSIVE IsSubSeq(_, _)
IsSubSeq(seq, of) ==
    IF seq = <<>> THEN TRUE
    ELSE IF of = <<>> THEN FALSE
    ELSE IF seq[1] = of[1] THEN IsSubSeq(Tail(seq), Tail(of))
    ELSE IsSubSeq(seq, Tail(of))

\* C19: the results of every /search response are the admitted news items in
\* the provider's order, then the Reddit posts in the adapter's order, then
\* the Bluesky posts in the adapter's order, in whatever order the three
\* adapter calls completed.
C19_MergeOrderFixed ==
    \A r \in Slots :
        (Responded(r, "search") /\ req[r].status = 200) =>
            LET results == req[r].body.results
                n       == CountOf(results, IsNews)
                nr      == Len(req[r].reddit.value)
                nb      == Len(req[r].bluesky.value)
            IN  /\ Len(results) = n + nr + nb
                /\ \A j \in 1..n : IsNews(results[j])
                /\ IsSubSeq(UrlsOf(SubSeq(results, 1, n)), UrlsOf(req[r].news.value))
                /\ UrlsOf(SubSeq(results, n + 1, n + nr)) = UrlsOf(req[r].reddit.value)
                /\ \A j \in (n + 1)..(n + nr) : results[j].source = "Reddit"
                /\ UrlsOf(SubSeq(results, n + nr + 1, n + nr + nb))
                       = UrlsOf(req[r].bluesky.value)
                /\ \A j \in (n + nr + 1)..(n + nr + nb) : results[j].source = "Bluesky"

\* a response with items of all three adapters, of which the Bluesky call
\* completed first and the news call last
C19_Witness ==
    \E r \in Slots :
        /\ Responded(r, "search") /\ req[r].status = 200
        /\ req[r].completed = <<"bluesky", "reddit", "news">>
        /\ CountOf(req[r].body.results, IsNews) = 2
        /\ Len(req[r].reddit.value) = 1
        /\ Len(req[r].bluesky.value) = 1

\* C20: no operation deletes a session or an article record: in every step,
\* session_exists stays true for each session there is, and get_article still
\* finds a record for each (session, URL) that has one.
C20_NothingDeleted ==
    [][ /\ \A n \in sessions : SessionExists(sessions', UuidStr(n)).value
        /\ \A k \in 1..Len(articles) :
              GetArticle(articles', UuidStr(articles[k].session_id),
                         articles[k].url).value # None ]_vars

\* two sessions with records, after a store into one of them that succeeded
C20_Witness ==
    /\ Cardinality(sessions) >= 2
    /\ \A n \in sessions : \E k \in 1..Len(articles) : articles[k].session_id = n
    /\ Len(articles) >= 3
    /\ store_log.op = "store_article"
    /\ store_log.raised = "none"


(***************************************************************************)
(* sentiment.py: classify_bias and analyze_sentiment applied on their own. *)
(***************************************************************************)
\* white space the model may put around its answer
BiasPads == { <<>>, <<" ">>, <<"\n">>, <<"\t", " ">> }

\* answers of the model with the label they are for once trimmed and
\* lower-cased: "other" for an answer that is neither label
BiasWords ==
    { [text |-> Str_left, label |-> "left"],
      [text |-> Str_right, label |-> "right"],
      [text |-> <<"L", "e", "f", "t">>, label |-> "left"],
      [text |-> <<"R", "i", "g", "h", "t">>, label |-> "right"],
      [text |-> <<"L", "E", "F", "T">>, label |-> "left"],
      [text |-> <<"R", "I", "G", "H", "T">>, label |-> "right"],
      [text |-> <<"c", "e", "n", "t", "e", "r">>, label |-> "other"],
      [text |-> <<>>, label |-> "other"],
      [text |-> <<"r", "i", "g", "h", "t", ".">>, label |-> "other"],
      [text |-> <<"f", "a", "r", " ", "r", "i", "g", "h", "t">>, label |-> "other"],
      [text |-> <<"r", "i", "g", " ", "h", "t">>, label |-> "other"] }

\* the compound scores the analyzer may give, in hundredths
Scores == (0 - MaxScore)..MaxScore

\* classify_bias called with a post for which the text-generation call
\* fails or answers a padded word
FnClassifyBias ==
    /\ \E failed \in BOOLEAN, front \in BiasPads, word \in BiasWords, back \in BiasPads :
         LET answer == IF failed THEN LlmFailed
                       ELSE LlmSays(front \o word.text \o back)
         IN  probe' = [fn |-> "classify_bias",
                       arg |-> [answer |-> answer,
                                label |-> IF failed THEN "failed" ELSE word.label],
                       result |-> ClassifyBias(answer)]
    /\ UNCHANGED <<storeVars, newsVars, serverVars, fetchers, logins, cli>>

\* analyze_sentiment called with a text of a given compound score, and the
\* exploration scripts categorising a post of the same score
FnAnalyzeSentiment ==
    /\ \E compound_score \in Scores :
         probe' = [fn |-> "analyze_sentiment",
                   arg |-> compound_score,
                   result |-> [server |-> SentimentOf(compound_score),
                               reddit |-> RedditScriptCategory(compound_score),
                               bluesky |-> BlueskyScriptCategory(compound_score)]]
    /\ UNCHANGED <<storeVars, newsVars, serverVars, fetchers, logins, cli>>

NextFn == FnClassifyBias \/ FnAnalyzeSentiment

SpecFn == Init /\ [][NextFn]_vars

\* C21: classify_bias returns "left" or "right" for every input: the
\* model's answer when, trimmed and lower-cased, it is one of the two labels,
\* and "left" for any other answer and for any failure of the call
C21_ClassifyBiasTotal ==
    probe.fn = "classify_bias" =>
        /\ probe.result \in {"left", "right"}
        /\ probe.arg.label \in {"left", "right"} => probe.result = probe.arg.label
        /\ probe.arg.label \in {"other", "failed"} => probe.result = "left"

C21_Witness ==
    /\ probe.fn = "classify_bias"
    /\ probe.arg.answer = LlmSays(<<"\n", "R", "I", "G", "H", "T", "\t", " ">>)
    /\ probe.result = "right"


\* C23: analyze_sentiment gives "positive" for a compound score of at least
\* 0.05, "negative" for one of at most -0.05 and "neutral" between the two,
\* the two boundary scores included in positive and negative; the Reddit and
\* the Bluesky exploration scripts give the same category for the same score
C23_SentimentThresholds ==
    probe.fn = "analyze_sentiment" =>
        /\ probe.arg >= 5 => probe.result.server.category = "positive"
        /\ probe.arg <= -5 => probe.result.server.category = "negative"
        /\ (probe.arg > -5 /\ probe.arg < 5) => probe.result.server.category = "neutral"
        /\ probe.result.server.score = probe.arg
        /\ probe.result.reddit = probe.result.server.category
        /\ probe.result.bluesky = probe.result.server.category

C23_Witness ==
    /\ probe.fn = "analyze_sentiment"
    /\ probe.arg = -5
    /\ probe.result.server.category = "negative"
    /\ probe.result.reddit = "negative"
    /\ probe.result.bluesky = "negative"


\* C22: when the text-generation call of /summary or /insights fails, the
\* handler answers a normal response (status 200) whose body is an error
\* payload, and the step changes neither the store nor the content cache
C22_GenerationFailureIsPayload ==
    [][ \A r \in Slots :
          (req[r].pc = "generate" /\ req'[r].generation = "failed") =>
              /\ req'[r].pc = "done"
              /\ req'[r].status = 200
              /\ req'[r].body.error \in {"Failed to generate summary",
                                         "Failed to generate insights"}
              /\ sessions' = sessions
              /\ articles' = articles
              /\ scraped_content_cache' = scraped_content_cache ]_vars

C22_Witness ==
    \E r \in Slots :
        /\ Responded(r, "insights")
        /\ req[r].generation = "failed"
        /\ req[r].status = 200
        /\ req[r].body.error = "Failed to generate insights"
        /\ articles # <<>>
        /\ DOMAIN scraped_content_cache # {}


(***************************************************************************)
(* Claims about the admission of news articles.                            *)
(***************************************************************************)
\* the news loop of the /search in slot r has run, to its end or to an error
NewsLoopEnded(r) ==
    /\ req[r].kind = "search"
    /\ AdaptersReturned(r)
    /\ req[r].pc # "adapters"

\* the loop's variables once it is through the first i candidates
LoopAfter(results, i) == FilterNews(SubSeq(results, 1, i))

\* the four conditions of admission, for the candidate at position i
MeetsConditions(results, i) ==
    LET before == LoopAfter(results, i - 1)
        article == results[i]
    IN  /\ Len(before.outputs) < MAX_TOTAL_ARTICLES
        /\ FindOutlet(article.url) # 0
        /\ ~article.content.isnone
        /\ TextLen(StripHtmlTags(article.content).runs) >= MIN_CONTENT_LENGTH
        /\ CountBias(before.outputs, OutletOf(article).bias) < CapOf(OutletOf(article).bias)

\* the candidate at position i is admitted: it is the one item the loop adds
IsAdmitted(results, i) ==
    LET before == LoopAfter(results, i - 1).outputs
        after  == LoopAfter(results, i).outputs
    IN  /\ Len(after) = Len(before) + 1
        /\ SubSeq(after, 1, Len(before)) = before
        /\ after[Len(after)].url = results[i].url

\* C24 as stated: the admitted news articles are a subsequence of the
\* provider's list in the provider's order; a candidate the loop examines is
\* admitted exactly when fewer than MAX_TOTAL_ARTICLES items are admitted, its
\* URL matches an outlet, its stripped content has at least
\* MIN_CONTENT_LENGTH characters and the count of its bias is below the cap;
\* a candidate that is not admitted changes neither counter.
C24_AdmissionExactlyWhen ==
    \A r \in Slots :
        NewsLoopEnded(r) =>
            LET results == req[r].news.value
            IN  /\ IsSubSeq(UrlsOf(FilterNews(results).outputs), UrlsOf(results))
                /\ \A i \in 1..Len(results) :
                       LoopAfter(results, i - 1).raised = "none" =>
                           /\ IsAdmitted(results, i) <=> MeetsConditions(results, i)
                           /\ ~IsAdmitted(results, i) =>
                                  /\ LoopAfter(results, i).left_count
                                         = LoopAfter(results, i - 1).left_count
                                  /\ LoopAfter(results, i).right_count
                                         = LoopAfter(results, i - 1).right_count


(***************************************************************************)
(* Claims about the rotation of keys.                                      *)
(***************************************************************************)
\* the key that follows a key in the pool, cyclically
KeyAfter(key) ==
    LET p == CHOOSE q \in 1..Len(NEWS_API_KEYS) : NEWS_API_KEYS[q] = key
    IN  NEWS_API_KEYS[(p % Len(NEWS_API_KEYS)) + 1]

\* C25: with one caller at a time, attempt i of a search_news call uses the
\* key i - 1 places after the pointer's value at the call's entry, cyclically,
\* and the pointer has advanced by one per attempt; the pointer is not reset
\* between calls, so the first key of a call is the key after the last key
\* fetched before it; the keys of a call with max_retries at most the pool
\* size are pairwise distinct.
C25_KeysInPoolOrder ==
    LET n    == Len(NEWS_API_KEYS)
        keys == news_call.keys
    IN  /\ \A i \in 1..Len(keys) :
               keys[i] = NEWS_API_KEYS[((news_call.start + i - 1) % n) + 1]
        /\ news_call.made => current_key_index = (news_call.start + Len(keys)) % n
        /\ \A i \in 2..Len(keys) : keys[i] = KeyAfter(keys[i - 1])
        /\ (keys # <<>> /\ news_call.prev_key # 0) => keys[1] = KeyAfter(news_call.prev_key)
        /\ news_call.max_retries <= n =>
               \A i, j \in 1..Len(keys) : i # j => keys[i] # keys[j]

\* a call that follows a call that ended at the pool's second key: it begins
\* with the third key and wraps around to the first
C25_Witness ==
    /\ news_call.prev_key = NEWS_API_KEYS[2]
    /\ news_call.max_retries = 3
    /\ news_call.keys = <<NEWS_API_KEYS[3], NEWS_API_KEYS[1], NEWS_API_KEYS[2]>>
    /\ current_key_index = 2


\* what holds of a search_news call while it runs and once it has ended
NewsCallBounded ==
    LET n == Len(news_call.answers)
    IN  /\ Len(news_call.keys) = n
        /\ news_call.max_retries >= 1 => n <= news_call.max_retries
        /\ (news_call.done /\ news_call.max_retries >= 1) =>
               /\ n >= 1
               /\ news_call.outcome \in {"return", "raise"}
        /\ \A i \in 1..n :
               IsData(news_call.answers[i]) =>
                   /\ i = n
                   /\ news_call.done
                   /\ news_call.outcome = "return"
                   /\ news_call.data = news_call.answers[i].payload
        /\ news_call.outcome = "return" => (n >= 1 /\ IsData(news_call.answers[n]))

\* C27: whatever the outcomes of the attempts, a search_news call with
\* max_retries >= 1 issues at least one and at most max_retries requests and
\* ends: it returns the data of the first successful attempt, after which no
\* request follows, or it raises.
C27_CallEndsWithinCeiling ==
    /\ []NewsCallBounded
    /\ []((news_call.made /\ news_call.max_retries >= 1) => <>news_call.done)

C27_Witness ==
    /\ news_call.done
    /\ news_call.max_retries = 3
    /\ Len(news_call.answers) = 2
    /\ news_call.answers[1] = Unreachable
    /\ IsData(news_call.answers[2])
    /\ news_call.outcome = "return"


(***************************************************************************)
(* search.py: _get_next_api_key called from several worker threads.  Each  *)
(* /search runs search_news in a thread of its own (server.py, to_thread); *)
(* the interpreter may switch threads between the reads and the write of   *)
(* the module-level pointer.                                               *)
(***************************************************************************)
\* a thread enters _get_next_api_key
FetchBegin(t) ==
    /\ fetchers.pc[t] = "idle"
    /\ fetchers.begun < MaxFetches
    /\ fetchers' = [fetchers EXCEPT !.pc[t] = "key", !.begun = @ + 1]
    /\ UNCHANGED <<storeVars, newsVars, serverVars, probe, logins, cli>>

\* key = NEWS_API_KEYS[_current_key_index]
FetchKey(t) ==
    /\ fetchers.pc[t] = "key"
    /\ fetchers' = [fetchers EXCEPT
                      !.pc[t] = "load",
                      !.key[t] = NEWS_API_KEYS[current_key_index + 1],
                      !.log = Append(@, [op |-> "read", value |-> current_key_index])]
    /\ UNCHANGED <<storeVars, newsVars, serverVars, probe, logins, cli>>

\* the right-hand side of the assignment: _current_key_index is loaded
FetchLoad(t) ==
    /\ fetchers.pc[t] = "load"
    /\ fetchers' = [fetchers EXCEPT !.pc[t] = "store", !.loaded[t] = current_key_index]
    /\ UNCHANGED <<storeVars, newsVars, serverVars, probe, logins, cli>>

\* the store without the modulo: _current_key_index = loaded + 1
FetchStore_NoWrap(t) ==
    /\ fetchers.pc[t] = "store"
    /\ current_key_index' = fetchers.loaded[t] + 1
    /\ fetchers' = [fetchers EXCEPT
                      !.pc[t] = "idle",
                      !.fetches = @ + 1,
                      !.log = Append(@, [op |-> "write", value |-> current_key_index'])]
    /\ UNCHANGED <<news_call, storeVars, serverVars, probe, logins, cli>>

\* _current_key_index = (loaded + 1) % len(NEWS_API_KEYS); return key
FetchStore(t) ==
    /\ fetchers.pc[t] = "store"
    /\ current_key_index' = (fetchers.loaded[t] + 1) % Len(NEWS_API_KEYS)
    /\ fetchers' = [fetchers EXCEPT
                      !.pc[t] = "idle",
                      !.fetches = @ + 1,
                      !.log = Append(@, [op |-> "write", value |-> current_key_index'])]
    /\ UNCHANGED <<news_call, storeVars, serverVars, probe, logins, cli>>

NextKeys ==
    \E t \in Threads : FetchBegin(t) \/ FetchKey(t) \/ FetchLoad(t) \/ FetchStore(t)

SpecKeys == Init /\ [][NextKeys]_vars

\* C26 as stated: with search_news calls running in several threads, every
\* key fetch advances the shared pointer by exactly one: once k fetches have
\* ended and none is under way the pointer is (initial + k) mod N, the pointer
\* being 0 initially, and no two fetches read the same pointer value for
\* their key without a store between the two reads.
C26_EveryFetchAdvancesByOne ==
    /\ (\A t \in Threads : fetchers.pc[t] = "idle") =>
           current_key_index = fetchers.fetches % Len(NEWS_API_KEYS)
    /\ \A i \in 1..(Len(fetchers.log) - 1) :
           (fetchers.log[i].op = "read" /\ fetchers.log[i + 1].op = "read") =>
               fetchers.log[i].value # fetchers.log[i + 1].value


(***************************************************************************)
(* Claims about the order of the steps of /search.                         *)
(***************************************************************************)
\* the /search in slot r is past gather: it filters, classifies or stores,
\* or has its response ready
PastGather(r) ==
    /\ req[r].kind = "search"
    /\ req[r].pc \in {"classify_reddit", "classify_bluesky", "store", "respond"}

\* the response in slot r carries a session id
CarriesSessionId(r) ==
    Responded(r, "search") /\ req[r].body.session_id # MalformedStr

\* C28: a /search filters only once its three adapter calls have completed,
\* and has its response only once store_articles_batch has completed: a
\* response that carries a session id is never there while an adapter call or
\* the store of that session is pending.
C28_ResponseAfterAdaptersAndStore ==
    \A r \in Slots :
        /\ PastGather(r) => AdaptersReturned(r)
        /\ (req[r].kind = "search" /\ req[r].pc = "respond") => req[r].stored
        /\ CarriesSessionId(r) =>
               /\ AdaptersReturned(r)
               /\ Len(req[r].completed) = 3
               /\ req[r].stored
               /\ req[r].body.session_id = req[r].session_id
               /\ \A j \in 1..Len(req[r].body.results) :
                      UrlStored(req[r].session_id, req[r].body.results[j].url)

C28_Witness ==
    \E r \in Slots :
        /\ CarriesSessionId(r)
        /\ req[r].status = 200
        /\ req[r].completed = <<"bluesky", "reddit", "news">>
        /\ Len(req[r].body.results) = 3
        /\ req[r].stored


(***************************************************************************)
(* server.py: the part of /search after gather, with the classify_bias     *)
(* calls of a list of posts running at the same time and ending one by one *)
(* in any order.                                                           *)
(***************************************************************************)
\* the lists gather hands to the rest of the handler
ClassifyNewsLists == { <<>>, <<NewsArticle("cnn", 1)>>, <<NewsArticle("fox", 1), NewsArticle("blog", 1)>> }
ClassifyPostLists(source) ==
    { [j \in 1..n |-> SocialPost(source, j)] : n \in 0..MaxClassified }

\* biases = await asyncio.gather(*bias_tasks), were the results in the order
\* in which the calls ended
GatherBiases_AsCompleted(request, first, n) ==
    [j \in 1..n |-> request.bias_tasks[request.bias_order[first + j - 1]].label]

\* biases = await asyncio.gather(*bias_tasks): the results in the order of
\* the tasks, the first of which is at position `first` of the request's calls
GatherBiases(request, first, n) ==
    [j \in 1..n |-> request.bias_tasks[first + j - 1].label]

\* for post, bias in zip(posts, biases): the records appended to outputs
ZipPosts(posts, biases) ==
    [j \in 1..Len(posts) |-> ClassifiedPost(posts[j], biases[j])]

\* gather has returned the three lists
ClassifyEnter(r) ==
    /\ req[r].pc = "idle"
    /\ \E news \in ClassifyNewsLists, reddit \in ClassifyPostLists("Reddit"),
          bluesky \in ClassifyPostLists("Bluesky") :
         req' = [req EXCEPT ![r] =
                   [Idle EXCEPT !.kind = "search", !.pc = "gathered",
                                !.news = [done |-> TRUE, value |-> news],
                                !.reddit = [done |-> TRUE, value |-> reddit],
                                !.bluesky = [done |-> TRUE, value |-> bluesky],
                                !.completed = <<"news", "reddit", "bluesky">>]]
    /\ UNCHANGED <<storeVars, newsVars, sideVars, bluesky_logged_in, scraped_content_cache, returned, scraper_log>>

\* the news loop; then bias_tasks is built for the Reddit posts
ClassifyNewsFiltered(r) ==
    /\ req[r].pc = "gathered"
    /\ LET loop == FilterNews(req[r].news.value)
       IN  req' = [req EXCEPT ![r].pc = "reddit_calls",
                              ![r].outputs = loop.outputs,
                              ![r].bias_tasks =
                                  [j \in 1..Len(req[r].reddit.value) |->
                                      BiasTask(req[r].reddit.value[j])]]
    /\ UNCHANGED <<storeVars, newsVars, sideVars, bluesky_logged_in, scraped_content_cache, returned, scraper_log>>

\* one of the classify_bias calls under way returns
ClassifyCallEnds(r) ==
    /\ req[r].pc \in {"reddit_calls", "bluesky_calls"}
    /\ \E k \in 1..Len(req[r].bias_tasks), answer \in LlmAnswers :
         /\ ~req[r].bias_tasks[k].done
         /\ req' = [req EXCEPT ![r].bias_tasks[k] = BiasTaskEnded(@, answer),
                               ![r].bias_order = Append(@, k)]
    /\ UNCHANGED <<storeVars, newsVars, sideVars, bluesky_logged_in, scraped_content_cache, returned, scraper_log>>

\* gather over the calls of the Reddit posts returns; the posts are labelled
\* and appended, and bluesky_bias_tasks is built
ClassifyRedditGathered(r) ==
    /\ req[r].pc = "reddit_calls"
    /\ \A k \in 1..Len(req[r].bias_tasks) : req[r].bias_tasks[k].done
    /\ LET posts  == req[r].reddit.value
           biases == GatherBiases(req[r], 1, Len(posts))
       IN  req' = [req EXCEPT ![r].pc = "bluesky_calls",
                              ![r].outputs = @ \o ZipPosts(posts, biases),
                              ![r].bias_tasks =
                                  @ \o [j \in 1..Len(req[r].bluesky.value) |->
                                           BiasTask(req[r].bluesky.value[j])]]
    /\ UNCHANGED <<storeVars, newsVars, sideVars, bluesky_logged_in, scraped_content_cache, returned, scraper_log>>

\* gather over the calls of the Bluesky posts returns; the posts are labelled
\* and appended, and the results are what the response will carry
ClassifyBlueskyGathered(r) ==
    /\ req[r].pc = "bluesky_calls"
    /\ \A k \in 1..Len(req[r].bias_tasks) : req[r].bias_tasks[k].done
    /\ LET posts  == req[r].bluesky.value
           biases == GatherBiases(req[r], Len(req[r].reddit.value) + 1, Len(posts))
           outputs == req[r].outputs \o ZipPosts(posts, biases)
       IN  req' = [req EXCEPT ![r].pc = "done",
                              ![r].status = 200,
                              ![r].outputs = outputs,
                              ![r].body = [NoBody EXCEPT !.results = outputs]]
    /\ UNCHANGED <<storeVars, newsVars, sideVars, bluesky_logged_in, scraped_content_cache, returned, scraper_log>>

NextClassify ==
    \/ ClassifyEnter("a") \/ ClassifyNewsFiltered("a") \/ ClassifyCallEnds("a")
    \/ ClassifyRedditGathered("a") \/ ClassifyBlueskyGathered("a") \/ Finish("a")

SpecClassify == Init /\ [][NextClassify]_vars

\* the calls issued for a URL
TasksFor(request, url) ==
    { k \in 1..Len(request.bias_tasks) : request.bias_tasks[k].url = url }

\* C29: a /search issues exactly one classify_bias call for every Reddit post
\* and for every Bluesky post and none for a news article, and every post of
\* the results carries the label the call issued for that post returned, in
\* whatever order the calls ended.
C29_OneCallPerPostOwnLabel ==
    \A r \in Slots :
        (Responded(r, "search") /\ req[r].status = 200) =>
            LET posts == req[r].reddit.value \o req[r].bluesky.value
                results == req[r].body.results
            IN  /\ Len(req[r].bias_tasks) = Len(posts)
                /\ \A j \in 1..Len(posts) :
                       Cardinality(TasksFor(req[r], posts[j].url)) = 1
                /\ \A j \in 1..Len(req[r].news.value) :
                       TasksFor(req[r], req[r].news.value[j].url) = {}
                /\ \A j \in 1..Len(results) :
                       IF results[j].source \in SocialSources
                       THEN \E k \in TasksFor(req[r], results[j].url) :
                                /\ req[r].bias_tasks[k].done
                                /\ results[j].bias = req[r].bias_tasks[k].label
                       ELSE TasksFor(req[r], results[j].url) = {}
                /\ Cardinality({ j \in 1..Len(results) :
                                    results[j].source \in SocialSources }) = Len(posts)

\* two Reddit posts, the call of the second ended first, with different labels
C29_Witness ==
    \E r \in Slots :
        /\ Responded(r, "search") /\ req[r].status = 200
        /\ Len(req[r].reddit.value) = 2
        /\ Len(req[r].news.value) = 1
        /\ SubSeq(req[r].bias_order, 1, 2) = <<2, 1>>
        /\ req[r].body.results[2].source = "Reddit" /\ req[r].body.results[2].bias = "right"
        /\ req[r].body.results[3].source = "Reddit" /\ req[r].body.results[3].bias = "left"


(***************************************************************************)
(* server.py: /summary and /insights served at the same time.  The         *)
(* handlers are coroutines of one event loop: one runs until it awaits, so *)
(* the test of the cache and the start of the scraper are one step, and    *)
(* the write of the cache follows the scraper's return in one step.  The   *)
(* lookups in the database that come first read rows no /summary and no    *)
(* /insights writes.                                                       *)
(***************************************************************************)
\* the provider lists of the searches that fill the store
CacheLists ==
    { <<NewsArticle("cnn", 1)>>, <<NewsArticle("cnn", 1), NewsArticle("fox", 1)>> }

\* a /search served from its arrival to its response, while there are fewer
\* than n sessions
SearchServedUpTo(n) ==
    /\ Cardinality(sessions) < n
    /\ \E results \in CacheLists :
         LET session_id == UuidStr(FreshUuid(sessions))
             outputs == FilterNews(results).outputs
             res == StoreArticlesBatch(sessions \cup {FreshUuid(sessions)}, articles,
                                       session_id, ToStore(outputs))
         IN  /\ sessions' = sessions \cup {FreshUuid(sessions)}
             /\ articles' = res.articles
             /\ returned' = returned \cup
                   { <<UuidOf(session_id), outputs[j].url>> : j \in 1..Len(outputs) }
    /\ bluesky_logged_in' = TRUE
    /\ logins' = IF bluesky_logged_in THEN logins ELSE logins + 1
    /\ UNCHANGED <<store_log, newsVars, probe, fetchers, cli, scraped_content_cache,
                   req, scraper_log>>

SearchServed == SearchServedUpTo(MaxSessions)

NextCache ==
    \/ SearchServed
    \/ \E r \in Slots : Summary(r) \/ Insights(r) \/ Finish(r)

SpecCache == Init /\ [][NextCache]_vars

\* the entry a step has added to the texts a request has taken
TakenNow(r) == req'[r].used[Len(req'[r].used)]
Takes(r) == req'[r].used # req[r].used /\ req'[r].used # <<>>

\* the step is the return of the scraper called by the request in slot r, and
\* the cache gets the returned text under the request's URL and nothing else
IsScrapeReturn(r) ==
    /\ req[r].pc = "scrape"
    /\ Takes(r)
    /\ TakenNow(r).from = "scraper"
    /\ TakenNow(r).url = req[r].url
    /\ TakenNow(r).content \in ScrapedTexts
    /\ DOMAIN scraped_content_cache' = DOMAIN scraped_content_cache \cup {req[r].url}
    /\ scraped_content_cache'[req[r].url] = TakenNow(r).content
    /\ \A u \in DOMAIN scraped_content_cache :
           u # req[r].url => scraped_content_cache'[u] = scraped_content_cache[u]

\* every key of the cache is a URL for which a scraper has returned a text
CacheHoldsScrapedTexts ==
    \A u \in DOMAIN scraped_content_cache :
        /\ u \in DOMAIN scraper_log.returns
        /\ scraped_content_cache[u] \in ScrapedTexts

\* C30: with /summary and /insights requests served at the same time, also for
\* the same uncached news URL, the cache has one value per URL, every value
\* is a text a successful scrape of that URL returned (the cache changes only
\* when a scraper returns, by the returned text under the scraped URL), and
\* the text a request takes for a news article is the cache's entry for the
\* URL, the text its own scrape of the URL returned, or the stored contents.
C30_ConcurrentMissesKeepCacheSound ==
    /\ []CacheHoldsScrapedTexts
    /\ [][ /\ scraped_content_cache' # scraped_content_cache =>
                \E r \in Slots : IsScrapeReturn(r)
           /\ \A r \in Slots :
                (Takes(r) /\ TakenNow(r).source \in NewsSources) =>
                    CASE TakenNow(r).from = "cache" ->
                             /\ TakenNow(r).url \in DOMAIN scraped_content_cache
                             /\ TakenNow(r).content = scraped_content_cache[TakenNow(r).url]
                      [] TakenNow(r).from = "scraper" -> IsScrapeReturn(r)
                      [] OTHER ->
                             TakenNow(r).content =
                                 GetArticle(articles, req'[r].session_id,
                                            TakenNow(r).url).value.contents ]_vars

\* a /summary and an /insights both missed the cache for one URL and both
\* scraped it, with different texts
C30_Witness ==
    /\ req["a"].kind = "summary" /\ req["b"].kind = "insights"
    /\ req["a"].pc = "generate" /\ req["b"].pc = "generate"
    /\ Len(req["a"].used) = 1 /\ Len(req["b"].used) = 1
    /\ req["a"].used[1].from = "scraper" /\ req["b"].used[1].from = "scraper"
    /\ req["a"].used[1].url = req["b"].used[1].url
    /\ req["a"].used[1].content # req["b"].used[1].content
    /\ scraper_log.returns[req["a"].used[1].url] = 2
    /\ scraped_content_cache[req["a"].used[1].url] = req["b"].used[1].content


(***************************************************************************)
(* server.py: the content cache shared by the requests of several          *)
(* sessions, the requests served one after another.                        *)
(***************************************************************************)
NextShared ==
    \/ SearchServedUpTo(SharedSessions)
    \/ Summary("a") \/ Insights("a") \/ Finish("a")

SpecShared == Init /\ [][NextShared]_vars

\* C31: the content cache is keyed by the URL alone and nothing removes an
\* entry: a text cached for a URL stays cached, and a later /summary or
\* /insights that comes to a stored news article of that URL, under whatever
\* session, takes the cached text and calls no scraper.
C31_CachedTextStaysAndIsUsed ==
    [][ /\ \A u \in DOMAIN scraped_content_cache :
              /\ u \in DOMAIN scraped_content_cache'
              /\ scraped_content_cache'[u] = scraped_content_cache[u]
        /\ \A r \in Slots :
              /\ ( /\ Takes(r)
                   /\ TakenNow(r).source \in NewsSources
                   /\ TakenNow(r).url \in DOMAIN scraped_content_cache ) =>
                     /\ TakenNow(r).from = "cache"
                     /\ TakenNow(r).content = scraped_content_cache[TakenNow(r).url]
                     /\ scraper_log' = scraper_log
              /\ (req'[r].pc = "scrape" /\ req[r].pc # "scrape") =>
                     req'[r].url \notin DOMAIN scraped_content_cache ]_vars

\* a request of the second session takes a text that only a request of the
\* first session has scraped
C31_Witness ==
    \E r \in Slots :
        /\ req[r].kind \in {"summary", "insights"}
        /\ req[r].session_id = UuidStr(2)
        /\ Len(req[r].used) = 1
        /\ req[r].used[1].from = "cache"
        /\ scraper_log.by = {<<req[r].used[1].url, 1>>}
        /\ req[r].used[1].content = scraped_content_cache[req[r].used[1].url]


\* the request in slot r comes to a stored article in this step: /summary
\* has found the article, or the loop of /insights has found the item's
ComesToArticle(r) ==
    /\ req[r].pc \in {"idle", "item"}
    /\ req'[r].kind \in {"summary", "insights"}
    /\ req'[r].pc \in {"scrape", "generate", "item"}
    /\ req'[r].article # None
    /\ \/ req'[r].pc = "scrape"
       \/ Takes(r)

\* the stored record of the article a request works on
StoredRecord(tbl, request) ==
    GetArticle(tbl, request.session_id, request.url).value

\* C32: when the scraper raises during /summary or /insights, no entry is
\* written to the content cache and the stored record of the article stays as
\* it was; a request that comes to a stored news article of an outlet whose
\* URL is not cached calls the scraper, so the next request for the URL
\* calls it again.
C32_ScraperFailureWritesNothing ==
    [][ \A r \in Slots :
          /\ (req[r].pc = "scrape" /\ Takes(r) /\ TakenNow(r).from = "raised") =>
                /\ scraped_content_cache' = scraped_content_cache
                /\ req[r].url \notin DOMAIN scraped_content_cache'
                /\ articles' = articles
                /\ StoredRecord(articles', req[r]) = req[r].article
          /\ ( /\ ComesToArticle(r)
               /\ req'[r].article.source \in NewsSources
               /\ FindOutlet(req'[r].url) # 0
               /\ req'[r].url \notin DOMAIN scraped_content_cache ) =>
                req'[r].pc = "scrape" ]_vars

\* the scraper has raised for a request: the URL is not cached, the record is
\* in the store, and no scraper has returned for the URL
C32_Witness ==
    \E r \in Slots :
        /\ req[r].kind = "insights"
        /\ Len(req[r].used) = 1
        /\ req[r].used[1].from = "raised"
        /\ req[r].used[1].url \notin DOMAIN scraped_content_cache
        /\ req[r].used[1].url \notin DOMAIN scraper_log.returns
        /\ StoredRecord(articles, req[r]) = req[r].article
        /\ req[r].used[1].content = req[r].article.contents


(***************************************************************************)
(* Claims about the records of a session.                                  *)
(***************************************************************************)
\* the rows of table articles of a session
RowsOf(tbl, uuid) == { i \in 1..Len(tbl) : tbl[i].session_id = uuid }

\* the last item of a list that has the URL
LastWithUrl(items, url) ==
    items[CHOOSE j \in 1..Len(items) :
              /\ items[j].url = url
              /\ \A k \in (j + 1)..Len(items) : items[k].url # url]

\* C33: once a /search has answered for session S, the store holds as many
\* records of S as the results have distinct URLs, and the record of each URL
\* is the last item of the results that has this URL.
C33_RecordsAreLastItemsPerUrl ==
    \A r \in Slots :
        (Responded(r, "search") /\ req[r].status = 200) =>
            LET results == req[r].body.results
                uuid    == UuidOf(req[r].body.session_id)
                urls    == { results[j].url : j \in 1..Len(results) }
            IN  /\ Cardinality(RowsOf(articles, uuid)) = Cardinality(urls)
                /\ \A u \in urls :
                       GetArticle(articles, req[r].body.session_id, u).value
                           = LastWithUrl(results, u)

\* a response with one URL twice, under different titles
C33_Witness ==
    \E r \in Slots :
        /\ Responded(r, "search") /\ req[r].status = 200
        /\ Len(req[r].body.results) >= 3
        /\ req[r].body.results[1].url = req[r].body.results[3].url
        /\ req[r].body.results[1] # req[r].body.results[3]
        /\ Cardinality(RowsOf(articles, UuidOf(req[r].body.session_id)))
               < Len(req[r].body.results)


\* C34: the records are scoped to their session. get_article(S, U) returns
\* only a record that was upserted under S: it comes from a row of S and is
\* the data last upserted for (S, U). An upsert under another session S',
\* for any URL, changes neither get_article(S, U) nor session_exists(S), be
\* it one the store may run next or the one a step has run.
C34_RecordsScopedToSession ==
    /\ [](\A uuid \in 1..StoreSessions, url \in StoreUrls :
            LET got == GetArticle(articles, UuidStr(uuid), url)
            IN  /\ got.value # None =>
                      /\ \E i \in 1..Len(articles) :
                            /\ articles[i].session_id = uuid
                            /\ articles[i].url = url
                            /\ JsonLoads(articles[i].data) = got.value
                      /\ got.value = store_log.last[<<uuid, url>>]
                /\ \A other \in StoreSessionStrings :
                      (UuidRaises(other) \/ UuidOf(other) # uuid) =>
                          /\ \A item \in StoreItems :
                                GetArticle(StoreArticle(sessions, articles, other,
                                                        item[1], item[2]).articles,
                                           UuidStr(uuid), url) = got
                          /\ \A batch \in StoreBatches :
                                GetArticle(StoreArticlesBatch(sessions, articles, other,
                                                              batch).articles,
                                           UuidStr(uuid), url) = got)
    /\ [][\A uuid \in 1..StoreSessions :
             /\ (\A url \in StoreUrls :
                    store_log'.last[<<uuid, url>>] = store_log.last[<<uuid, url>>])
                => \A url \in StoreUrls :
                      GetArticle(articles', UuidStr(uuid), url)
                          = GetArticle(articles, UuidStr(uuid), url)
             /\ articles' # articles =>
                    SessionExists(sessions', UuidStr(uuid))
                        = SessionExists(sessions, UuidStr(uuid))]_vars

\* two sessions hold different records for one URL, the one of the second
\* session upserted last
C34_Witness ==
    /\ store_log.op \in {"store_article", "store_articles_batch"}
    /\ store_log.raised = "none"
    /\ sessions = {1, 2}
    /\ Len(articles) >= 2
    /\ articles[Len(articles)].session_id = 2
    /\ \E url \in StoreUrls :
          /\ articles[Len(articles)].url = url
          /\ GetArticle(articles, UuidStr(1), url).value # None
          /\ GetArticle(articles, UuidStr(2), url).value # None
          /\ GetArticle(articles, UuidStr(1), url).value
                # GetArticle(articles, UuidStr(2), url).value


\* the URLs of the rows of a session
RowUrls(tbl, uuid) == { tbl[i].url : i \in RowsOf(tbl, uuid) }

\* C35: a /search that fails after create_session (login failure, adapter
\* exception, classification or store failure) leaves its session in the
\* store with no article records; a session of the store has either no
\* records or the items of its search whose store step has succeeded.
C35_FailedSearchLeavesEmptySession ==
    /\ \A r \in Slots :
          (Responded(r, "search") /\ req[r].status = 500) =>
              /\ SessionExists(sessions, req[r].session_id).value
              /\ RowsOf(articles, UuidOf(req[r].session_id)) = {}
    /\ \A uuid \in sessions :
          \/ RowsOf(articles, uuid) = {}
          \/ \E r \in Slots :
                /\ req[r].kind = "search" /\ req[r].session_id = UuidStr(uuid)
                /\ req[r].stored
                /\ RowUrls(articles, uuid) =
                      { req[r].articles_to_store[j][1] :
                            j \in 1..Len(req[r].articles_to_store) }
          \/ RowUrls(articles, uuid) = { p[2] : p \in { q \in returned : q[1] = uuid } }

\* the store step of a /search with items to store has failed
C35_Witness ==
    \E r \in Slots :
        /\ Responded(r, "search") /\ req[r].status = 500
        /\ req[r].body.error = "PostgresError"
        /\ Len(req[r].articles_to_store) >= 2
        /\ UuidOf(req[r].session_id) \in sessions
        /\ articles = <<>>


(***************************************************************************)
(* server.py: concurrent /search requests around the Bluesky login. The    *)
(* handler gives up control at `await bluesky_client.login(...)`, between  *)
(* the test of bluesky_logged_in and its assignment; what follows the      *)
(* login is taken in one step.                                             *)
(***************************************************************************)
\* the searches a process serves
LoginSessions == 3

\* a /search from the gather to its response
SearchRest(r) ==
    /\ req[r].pc = "adapters"
    /\ \E results \in CacheLists :
         LET outputs == FilterNews(results).outputs
             res == StoreArticlesBatch(sessions, articles, req[r].session_id,
                                       ToStore(outputs))
         IN  /\ articles' = res.articles
             /\ req' = [req EXCEPT ![r].pc = "done",
                                   ![r].status = 200,
                                   ![r].outputs = outputs,
                                   ![r].articles_to_store = ToStore(outputs),
                                   ![r].stored = TRUE,
                                   ![r].body = [NoBody EXCEPT
                                                   !.session_id = req[r].session_id,
                                                   !.results = outputs]]
             /\ returned' = returned \cup
                   { <<UuidOf(req[r].session_id), outputs[j].url>> :
                         j \in 1..Len(outputs) }
    /\ UNCHANGED <<sessions, store_log, newsVars, sideVars, bluesky_logged_in,
                   scraped_content_cache, scraper_log>>

NextLogin ==
    \E r \in Slots :
        \/ SearchBeginUpTo(r, LoginSessions) \/ SearchLogin(r)
        \/ SearchRest(r) \/ Finish(r)

SpecLogin == Init /\ [][NextLogin]_vars

\* C36: whatever the interleaving of concurrent /search requests, the Bluesky
\* login is performed at most once per process: a request invokes login only
\* while the flag is false, the flag is set only by a login that succeeded,
\* and once the flag is true no login is performed any more.
C36_LoginAtMostOnce ==
    /\ [](logins <= 1)
    /\ [][/\ \A r \in Slots :
                (req'[r].pc = "login" /\ req[r].pc # "login") => ~bluesky_logged_in
          /\ (bluesky_logged_in' /\ ~bluesky_logged_in) => logins' = logins + 1
          /\ logins' # logins => ~bluesky_logged_in]_vars


\* C37: in every reachable state, whatever the interleaving of the threads
\* inside _get_next_api_key, _current_key_index is a valid index of the pool
\* (0 <= pointer < N, with N >= 1), so that the subscript of a key fetch never
\* fails: every value a thread has loaded is a valid index too and every key
\* a thread has fetched is a key of the pool.
C37_PointerIsValidIndex ==
    /\ Len(NEWS_API_KEYS) >= 1
    /\ current_key_index \in 0..(Len(NEWS_API_KEYS) - 1)
    /\ \A t \in Threads :
          /\ fetchers.pc[t] = "store" => fetchers.loaded[t] \in 0..(Len(NEWS_API_KEYS) - 1)
          /\ fetchers.pc[t] \in {"load", "store"} =>
                \E k \in 1..Len(NEWS_API_KEYS) : fetchers.key[t] = NEWS_API_KEYS[k]
    /\ \A i \in 1..Len(fetchers.log) :
          fetchers.log[i].value \in 0..(Len(NEWS_API_KEYS) - 1)

\* two threads have read the pointer one right after the other, and a store
\* has wrapped the pointer around to 0
C37_Witness ==
    /\ \A t \in Threads : fetchers.pc[t] = "idle"
    /\ fetchers.fetches = MaxFetches
    /\ \E i \in 1..(Len(fetchers.log) - 1) :
          fetchers.log[i].op = "read" /\ fetchers.log[i + 1].op = "read"
    /\ \E j \in 1..Len(fetchers.log) :
          fetchers.log[j].op = "write" /\ fetchers.log[j].value = 0


(***************************************************************************)
(* reddit.py: search_posts_by_query from the selection of the posts to the *)
(* saved file. asyncio.gather starts the tasks in the order of the list;   *)
(* a task is suspended where it waits for the semaphore and where          *)
(* scrape_single_post waits for Reddit.                                    *)
(***************************************************************************)
\* selected_posts = search_results (never empty here), the semaphore is
\* created and the tasks are handed to gather
CliSelect ==
    /\ cli.phase = "search"
    /\ \E n \in Selected :
         cli' = [cli EXCEPT !.phase = "gather", !.n = n, !.value = MaxWorkers(n),
                            !.pc = [i \in Selected |-> IF i <= n THEN "created" ELSE "none"]]
    /\ UNCHANGED <<storeVars, newsVars, serverVars, probe, fetchers, logins>>

\* the next task starts: `async with semaphore` takes the semaphore when it
\* is free and nobody waits for it, and queues up otherwise
ScrapeEnter(i) ==
    /\ cli.phase = "gather"
    /\ i = cli.started + 1
    /\ cli.pc[i] = "created"
    /\ cli' = IF cli.value > 0 /\ cli.waiters = <<>>
              THEN [cli EXCEPT !.started = i, !.value = @ - 1, !.pc[i] = "scraping"]
              ELSE [cli EXCEPT !.started = i, !.waiters = Append(@, i), !.pc[i] = "waiting"]
    /\ UNCHANGED <<storeVars, newsVars, serverVars, probe, fetchers, logins>>

\* scrape_single_post returns post_data, or None after an exception; leaving
\* `async with` releases the semaphore
ScrapeEnds(i) ==
    /\ cli.phase = "gather"
    /\ cli.pc[i] = "scraping"
    /\ \E ok \in BOOLEAN :
         cli' = [cli EXCEPT !.pc[i] = IF ok THEN "ok" ELSE "failed",
                            !.results[i] = IF ok THEN PostData(i) ELSE NoPost,
                            !.value = @ + 1]
    /\ UNCHANGED <<storeVars, newsVars, serverVars, probe, fetchers, logins>>

\* the task that has waited longest gets the released semaphore
ScrapeResumes(i) ==
    /\ cli.phase = "gather"
    /\ cli.waiters # <<>>
    /\ i = Head(cli.waiters)
    /\ cli.value > 0
    /\ cli' = [cli EXCEPT !.waiters = Tail(@), !.value = @ - 1, !.pc[i] = "scraping"]
    /\ UNCHANGED <<storeVars, newsVars, serverVars, probe, fetchers, logins>>

\* [p for p in scraped_posts if p is not None] over the results of gather,
\* which are in the order of the tasks
RECURSIVE NotNone(_, _, _)
NotNone(results, i, n) ==
    IF i > n THEN <<>>
    ELSE (IF results[i] = NoPost THEN <<>> ELSE <<results[i]>>) \o NotNone(results, i + 1, n)

\* gather returns once every task has ended; the posts are filtered and saved
CliSave ==
    /\ cli.phase = "gather"
    /\ \A i \in 1..cli.n : cli.pc[i] \in {"ok", "failed"}
    /\ cli' = [cli EXCEPT !.phase = "saved",
                          !.scraped_posts = NotNone(cli.results, 1, cli.n)]
    /\ UNCHANGED <<storeVars, newsVars, serverVars, probe, fetchers, logins>>

NextCli ==
    \/ CliSelect
    \/ \E i \in Selected : ScrapeEnter(i) \/ ScrapeEnds(i) \/ ScrapeResumes(i)
    \/ CliSave

SpecCli == Init /\ [][NextCli]_vars

\* the event loop runs every task that can go on, and every request to Reddit
\* returns or raises
SpecCliLive ==
    /\ SpecCli
    /\ \A i \in Selected :
          WF_vars(ScrapeEnter(i)) /\ WF_vars(ScrapeEnds(i)) /\ WF_vars(ScrapeResumes(i))
    /\ WF_vars(CliSave)

\* the executions of scrape_single_post in progress
InProgress == { i \in Selected : cli.pc[i] = "scraping" }

\* the saved posts are those whose scrape succeeded, each once, in the order
\* of the selection
SavedAreSucceeded ==
    cli.phase = "saved" =>
        /\ \A k \in 1..Len(cli.scraped_posts) :
              /\ cli.scraped_posts[k].kind = "post_data"
              /\ cli.pc[cli.scraped_posts[k].index] = "ok"
        /\ \A i \in 1..cli.n :
              cli.pc[i] = "ok" =>
                  Cardinality({ k \in 1..Len(cli.scraped_posts) :
                                    cli.scraped_posts[k].index = i }) = 1
        /\ \A k \in 1..(Len(cli.scraped_posts) - 1) :
              cli.scraped_posts[k].index < cli.scraped_posts[k + 1].index

\* C38: in search_posts_by_query at most min(5, number of selected posts)
\* executions of scrape_single_post are in progress at any time, the scrape
\* of every selected post eventually ends, in success or in failure, and the
\* saved output holds exactly the posts whose scrape succeeded, in the order
\* of the selection.
C38_BoundedWorkersAllScrapedSavedInOrder ==
    /\ [](/\ Cardinality(InProgress) <= 5
          /\ cli.phase # "search" => Cardinality(InProgress) <= cli.n
          /\ SavedAreSucceeded)
    /\ \A i \in Selected :
          [](cli.pc[i] = "created" => <>(cli.pc[i] \in {"ok", "failed"}))
    /\ [](cli.phase = "gather" => <>(cli.phase = "saved"))

\* more posts than workers were selected, a scrape in the middle failed, and
\* the file holds the others
C38_Witness ==
    /\ cli.phase = "saved"
    /\ cli.n = MaxSelected
    /\ cli.n > 5
    /\ cli.pc[2] = "failed"
    /\ Len(cli.scraped_posts) = cli.n - 1
    /\ cli.scraped_posts[2] = PostData(3)

\* five scrapes are in progress while a sixth task waits for the semaphore
C38_WorkersBusy ==
    /\ Cardinality(InProgress) = 5
    /\ cli.waiters # <<>>

====
